---- MODULE Spec2Model ----
(***************************************************************************)
(* Model of the SSE relay of packages/desktop/src-tauri/src/opencode/sse.rs *)
(* (SseManager and stream_events): the reconnect loop with its backoff,    *)
(* the line/frame handler of a streaming session with the placeholder      *)
(* filter and the completion detector, the replay buffer and the           *)
(* foreground calls stop and set_directory.                                *)
(***************************************************************************)
EXTENDS Integers, Sequences, FiniteSets, TLC

(***************************************************************************)
(* Bounds of the model.                                                    *)
(***************************************************************************)
\* frames dispatched in one manager lifetime (frame specification)
MaxFrames == 3
\* connection attempts in one manager lifetime (frame specification)
MaxAttempts == 2
\* connection attempts in one manager lifetime (connector specification)
MaxConnAttempts == 3
\* connection attempts in one manager lifetime (backoff specification)
MaxBackoffAttempts == 7
\* frames dispatched in one manager lifetime (connector specification)
MaxConnFrames == 2
\* events pushed beyond the capacity (replay-buffer specification)
MaxExtraPushes == 4
\* frames dispatched in one manager lifetime (metadata specification)
MaxMetaFrames == 3
\* frames of one streaming session (completion specification)
MaxCompletionFrames == 2
\* frames of one streaming session and subscribe calls (subscriber specification)
MaxSubscriberFrames == 2
MaxReplays == 1
\* frames of one streaming session (notifier specification)
MaxNotifierFrames == 2
\* seconds of one streaming session (time specification)
MaxClock == 41
\* characters of a model id (formatter specification)
MaxModelLen == 4
\* frames dispatched in one manager lifetime (guard specification)
MaxLockFrames == 1
\* heartbeats emitted in one manager lifetime (guard specification)
MaxHeartbeats == 1
\* subscribers counted at one time (guard specification)
MaxSubscribers == 1

(***************************************************************************)
(* Program constants.                                                      *)
(***************************************************************************)
\* let max_buffer = 256usize;
max_buffer == 256
\* let mut delay_ms = 500;  and  delay_ms = 500 after a stream
DelayFloor == 500
\* (delay_ms.saturating_mul(2)).min(8_000)
DelayCeiling == 8000
\* the seconds after which a heartbeat is due
HeartbeatEvery == 20

(***************************************************************************)
(* JSON values.  A string field holds the string, Absent when the key is   *)
(* missing (Value::get gives None) and NonStr when the key holds a value   *)
(* that is no string (as_str gives None).  An array field holds the        *)
(* sequence of its entries, NoArray when the key is missing or no array.   *)
(***************************************************************************)
Absent == "<absent>"
NonStr == "<non-string>"
\* Option::None of an Option<String> / Option<&str>
NoneV == Absent

NoArray == << [type |-> "<no-array>", reason |-> "<no-array>"] >>

\* v.as_str(): None for a value that is no string
AsStr(v) == IF v = NonStr THEN NoneV ELSE v

\* a.or_else(|| b) on the Option<&Value> of two Value::get calls
OrElse(a, b) == IF a # Absent THEN a ELSE b

\* v.and_then(|v| v.as_array()).cloned().or_else(|| w ... as_array().cloned())
ArrOrElse(a, b) == IF a # NoArray THEN a ELSE b

\* .unwrap_or_default() of an Option<Vec<Value>>
ArrUnwrapOrDefault(a) == IF a = NoArray THEN << >> ELSE a

(***************************************************************************)
(* An event: the fields of the JSON object that stream_events reads.  A    *)
(* missing "properties" or "part" object reads as all its fields missing.  *)
(***************************************************************************)
Ev0 ==
    [ type |-> Absent,
      id |-> Absent, info_id |-> Absent,
      role |-> Absent, info_role |-> Absent,
      status |-> Absent, info_status |-> Absent,
      parts |-> NoArray, info_parts |-> NoArray,
      part_type |-> Absent, part_reason |-> Absent,
      part_messageID |-> Absent, part_message_id |-> Absent,
      info_modelID |-> Absent, info_mode |-> Absent,
      message_info_modelID |-> Absent, message_info_mode |-> Absent ]

TextPart == [type |-> "text", reason |-> Absent]
StopPart == [type |-> "step-finish", reason |-> "stop"]
ToolCallsPart == [type |-> "step-finish", reason |-> "tool-calls"]

\* message.updated, properties.id, role assistant, status completed, a text part
UpdCompleted(m) ==
    [Ev0 EXCEPT !.type = "message.updated", !.id = m, !.role = "assistant",
                !.status = "completed", !.parts = << TextPart >>]

\* message.updated, properties.info.{id, role, status}, a step-finish/stop part
UpdStepFinish(m) ==
    [Ev0 EXCEPT !.type = "message.updated", !.info_id = m, !.info_role = "assistant",
                !.info_status = "pending", !.parts = << TextPart, StopPart >>]

\* message.updated with everything under properties.info: id, role, a pending
\* status and a parts list that holds a step-finish/stop part
UpdInfoStepFinish(m) ==
    [Ev0 EXCEPT !.type = "message.updated", !.info_id = m, !.info_role = "assistant",
                !.info_status = "pending", !.info_parts = << TextPart, StopPart >>]

\* message.updated still in progress: a text part and a step-finish/tool-calls part
UpdRunning(m) ==
    [Ev0 EXCEPT !.type = "message.updated", !.id = m, !.role = "assistant",
                !.status = "pending", !.parts = << TextPart, ToolCallsPart >>]

\* message.part.updated with a step-finish/stop part of message m
PartStop(m) ==
    [Ev0 EXCEPT !.type = "message.part.updated", !.part_type = "step-finish",
                !.part_reason = "stop", !.part_messageID = m]

\* message.part.updated with a text part of message m
PartText(m) ==
    [Ev0 EXCEPT !.type = "message.part.updated", !.part_type = "text",
                !.part_messageID = m]

\* the transient placeholder: message.updated, role assistant, parts []
Placeholder(m) ==
    [Ev0 EXCEPT !.type = "message.updated", !.id = m, !.role = "assistant",
                !.status = "completed", !.parts = << >>]

\* the placeholder with the role under info and no parts key at all
PlaceholderInfo(m) ==
    [Ev0 EXCEPT !.type = "message.updated", !.info_id = m, !.info_role = "assistant",
                !.info_status = "completed"]

SessionIdle == [Ev0 EXCEPT !.type = "session.idle"]

\* message.updated of message m with properties.info.modelID and
\* properties.info.mode (Absent for a missing key)
Meta(m, model, mode) ==
    [Ev0 EXCEPT !.type = "message.updated", !.info_id = m,
                !.info_modelID = model, !.info_mode = mode]

\* message.updated of message m with the model under properties.message.info
MetaNested(m, model) ==
    [Ev0 EXCEPT !.type = "message.updated", !.id = m, !.message_info_modelID = model]

(***************************************************************************)
(* The text of one data: line.  valid: serde_json::from_str accepts it.    *)
(* has_payload: the parsed object has a "payload" key, whose value is      *)
(* payload; body is the parsed object read as an event itself.             *)
(***************************************************************************)
Bare(ev) == [valid |-> TRUE, has_payload |-> FALSE, payload |-> Ev0, body |-> ev]
\* { "directory": ..., "payload": ev }
Envelope(ev) == [valid |-> TRUE, has_payload |-> TRUE, payload |-> ev, body |-> Ev0]
BadJson == [valid |-> FALSE, has_payload |-> FALSE, payload |-> Ev0, body |-> Ev0]

MsgIds == {"m1", "m2"}

\* the data: lines of the frame specification
Payloads ==
    {Bare(PartStop(m)) : m \in MsgIds}
    \cup { Bare(UpdCompleted("m1")), Envelope(UpdStepFinish("m1")),
           Bare(Placeholder("m1")), Envelope(PlaceholderInfo("m2")),
           Envelope(SessionIdle), BadJson }

\* the events of the metadata specification: frames with a model only, a mode
\* only, both, an empty model id, neither, the model under message.info, a
\* placeholder with a mode, a frame of another message
MetaEvents ==
    { Meta("m1", "gpt-4", Absent), Meta("m1", Absent, "build"),
      Meta("m1", "gpt-5", "plan"), Meta("m1", "", Absent),
      Meta("m1", Absent, Absent), MetaNested("m1", "gpt-4"),
      [Placeholder("m1") EXCEPT !.info_mode = "plan"],
      Meta("m2", NonStr, "build") }
MetaPayloads == {Bare(ev) : ev \in MetaEvents}

\* the data: lines, id: lines and directories of the connector specification
ConnPayloads == {Envelope(SessionIdle), Bare(Placeholder("m1"))}
ConnEventIds == {"e1", "e2"}
Directories == {"", "/proj"}

VARIABLES
    \* SseManager
    stop_tx,            \* the stop flag (stop_signal in the task)
    buffer,             \* the replay buffer
    directory_state,    \* the target directory
    \* the task of SseManager::start
    pc,                 \* where the task is
    delay_ms,
    last_event_id,
    request,            \* the request of the current connection attempt
    \* stream_events
    data_buf,
    event_id_buf,
    last_completed_id,
    message_info_cache, \* message id -> << model, mode >>
    buf,                \* the bytes read and not yet split into lines
    value,              \* the event of the frame being handled
    \* what the task emits
    events,             \* "opencode:event"
    statuses,           \* "opencode:status"
    notifications,      \* notification().builder()...show()
    \* history
    attempts,           \* connection attempts issued
    session,            \* streaming sessions started
    frames,             \* the frames dispatched: session, data, notifications shown
    id_frame,           \* the frame whose id: line last_event_id carries, 0 if none
    last_line,          \* the kind of the line handled last in this session
    \* the byte stream of a response
    wire,               \* the bytes the server sends on this connection
    arrived,            \* how many of them the chunks read so far carried
    decoded,            \* the frames dispatched from them: data and pending id
    line,               \* the line drained from buf and being handled
    splits,             \* the kinds of chunk boundary seen so far
    \* the guards the task holds, and the count behind the third of them
    held,
    subscriber_count,
    \* time, in seconds
    now,                \* the clock
    last_heartbeat,     \* the Instant of the last heartbeat
    \* the foreground
    snapshot,           \* the vector the last opencode_events_snapshot returned
    window_events,      \* "opencode:event" emitted to a window by subscribe and replay
    \* the notification capability
    notify_ok,          \* whether show() succeeds
    \* the notification formatter taken by itself
    sse_manager,        \* DesktopRuntime.sse_manager: "pending", "installed" or "taken"
    session_from,       \* the bytes that had arrived when the session started
    subscribed_at,      \* the live events emitted before the window subscribed
    raw_model,
    raw_mode,
    title,
    body_text

vars ==
    << stop_tx, buffer, directory_state, pc, delay_ms, last_event_id, request,
       data_buf, event_id_buf, last_completed_id, value, events, statuses,
       notifications, attempts, session, frames, id_frame,
       message_info_cache, buf, last_line, wire, arrived, decoded, line, splits,
       held, subscriber_count, now, last_heartbeat, snapshot, window_events,
       notify_ok,
       sse_manager, session_from, subscribed_at, raw_model, raw_mode, title, body_text >>

\* the variables of the manager and the connector loop
connVars == << stop_tx, directory_state, pc, delay_ms, request, statuses, attempts, session >>
\* the variables of a streaming session
streamVars ==
    << buffer, last_event_id, data_buf, event_id_buf, last_completed_id, value,
       events, notifications, frames, id_frame, message_info_cache, buf >>
\* the variables the line-level actions leave alone
sideVars ==
    << now, last_heartbeat, snapshot, window_events, notify_ok,
       sse_manager, session_from, subscribed_at,
       raw_model, raw_mode,
       title, body_text >>
fineVars == << wire, arrived, decoded, line, splits, held, subscriber_count, sideVars >>

\* a vector handed to the foreground: data is what it held when it was made,
\* shares says whether it is the storage of the live replay buffer
NoSnapshot == [taken |-> FALSE, shares |-> FALSE, data |-> << >>]

\* where the current session started: the bytes that had arrived and the
\* frames that had been dispatched by then
NoSession == [arrived |-> 0, decoded |-> 0]

NoRequest == [directory |-> Absent, last_event_id |-> NoneV]

\* SseManager::start, up to the task's first loop test
Init ==
    /\ stop_tx = FALSE
    /\ buffer = << >>
    /\ directory_state = ""
    /\ pc = "top"
    /\ delay_ms = DelayFloor
    /\ last_event_id = NoneV
    /\ request = NoRequest
    /\ data_buf = << >>
    /\ event_id_buf = NoneV
    /\ last_completed_id = NoneV
    /\ value = Ev0
    /\ events = << >>
    /\ statuses = << >>
    /\ notifications = << >>
    /\ attempts = 0
    /\ session = 0
    /\ frames = << >>
    /\ id_frame = 0
    /\ message_info_cache = << >>
    /\ buf = << >>
    /\ last_line = "none"
    /\ wire = << >>
    /\ arrived = 0
    /\ decoded = << >>
    /\ line = << >>
    /\ splits = {}
    /\ held = {}
    /\ subscriber_count = 0
    /\ now = 0
    /\ last_heartbeat = 0
    /\ snapshot = NoSnapshot
    /\ window_events = << >>
    /\ notify_ok = TRUE
    /\ sse_manager = "installed"
    /\ session_from = NoSession
    /\ subscribed_at = 0
    /\ raw_model = << >>
    /\ raw_mode = << >>
    /\ title = << >>
    /\ body_text = << >>

(***************************************************************************)
(* The diagnostics of "opencode:status".                                   *)
(***************************************************************************)
Status0 ==
    [ status |-> Absent, directory |-> Absent, hint |-> Absent, delay_ms |-> 0,
      last_event_id |-> NoneV, raw |-> << >>, heartbeat |-> FALSE, subscribers |-> 0,
      at |-> 0 ]

\* {"status":"connected","directory":directory}
StatusConnected(dir) == [Status0 EXCEPT !.status = "connected", !.directory = dir]
\* {"status":"connected","heartbeat":true,"subscribers":current_subscribers}
StatusHeartbeat(n) ==
    [Status0 EXCEPT !.status = "connected", !.heartbeat = TRUE, !.subscribers = n]
\* {"status":"error","hint":...}
StatusError(hint) == [Status0 EXCEPT !.status = "error", !.hint = hint]
\* {"status":"error","hint":"JSON parse failed: ..","raw":data_buf}
StatusParseError(raw) ==
    [Status0 EXCEPT !.status = "error", !.hint = "JSON parse failed", !.raw = raw]
\* faulty variant: the diagnostic carries the delay of the sleep after this one
\* and no event id
MutStatusReconnecting(d, id) ==
    [Status0 EXCEPT !.status = "reconnecting", !.delay_ms = 2 * d]

\* {"status":"reconnecting","delay_ms":delay_ms,"last_event_id":last_event_id}
StatusReconnecting(d, id) ==
    [Status0 EXCEPT !.status = "reconnecting", !.delay_ms = d, !.last_event_id = id]

(***************************************************************************)
(* The reconnect loop of SseManager::start.                                *)
(***************************************************************************)
Min(a, b) == IF a <= b THEN a ELSE b

\* faulty variant: the delay grows by the floor instead of doubling
MutSaturatingMul2(d) == d + DelayFloor

\* u64::saturating_mul(2): it saturates at 2^64 - 1, which no delay_ms <= 8000
\* comes near (and which lies beyond the integers TLC computes with)
SaturatingMul2(d) == 2 * d

\* faulty variant: the doubling without the ceiling
MutNextDelay(d) == SaturatingMul2(d)

\* delay_ms = (delay_ms.saturating_mul(2)).min(8_000)
NextDelay(d) == Min(SaturatingMul2(d), DelayCeiling)

\* faulty variant: the directory of the first attempt is kept for every later one
MutBuildRequest(dir, id) ==
    [ directory |-> IF request.directory = Absent THEN dir ELSE request.directory,
      last_event_id |-> id ]

\* the request built at the top of an iteration: ?directory= and Last-Event-ID
BuildRequest(dir, id) == [directory |-> dir, last_event_id |-> id]

\* the state of a fresh stream_events call
SessionStart ==
    /\ data_buf' = << >>
    /\ event_id_buf' = NoneV
    /\ last_completed_id' = NoneV
    /\ message_info_cache' = << >>
    /\ buf' = << >>
    /\ value' = Ev0
    /\ last_line' = "none"

\* faulty variant: the stop flag is not read before the reconnecting diagnostic
MutEndIteration(d, st) ==
    /\ delay_ms' = d
    /\ pc' = "sleeping"
    /\ statuses' = Append(st, StatusReconnecting(d, last_event_id))

\* the end of an iteration: the stop test, the reconnecting diagnostic, the sleep.
\* d is delay_ms as the match left it, st the diagnostics emitted so far.
EndIteration(d, st) ==
    /\ delay_ms' = d
    /\ IF stop_tx
         THEN /\ pc' = "stopped"
              /\ statuses' = st
         ELSE /\ pc' = "sleeping"
              /\ statuses' = Append(st, StatusReconnecting(d, last_event_id))

\* while !stop_signal.load(): read the directory, build and send the request
BeginAttempt(maxAttempts) ==
    /\ pc = "top"
    /\ IF stop_tx
         THEN /\ pc' = "stopped"
              /\ UNCHANGED << request, attempts >>
         ELSE /\ attempts < maxAttempts
              /\ request' = BuildRequest(directory_state, last_event_id)
              /\ attempts' = attempts + 1
              /\ pc' = "sending"
    /\ UNCHANGED << stop_tx, directory_state, delay_ms, statuses, session >>
    /\ UNCHANGED streamVars
    /\ UNCHANGED << last_line, fineVars >>

\* faulty variant: last_event_id starts afresh with each streaming session
MutConnectOk ==
    /\ pc = "sending"
    /\ statuses' = Append(statuses, StatusConnected(request.directory))
    /\ SessionStart
    /\ last_event_id' = NoneV
    /\ session' = session + 1
    /\ pc' = "streaming"
    /\ UNCHANGED << stop_tx, directory_state, delay_ms, request, attempts >>
    /\ UNCHANGED << buffer, events, notifications, frames, id_frame >>
    /\ UNCHANGED fineVars

\* faulty variant: the replay buffer starts afresh with each streaming session
MutConnectOkEmpty ==
    /\ pc = "sending"
    /\ statuses' = Append(statuses, StatusConnected(request.directory))
    /\ SessionStart
    /\ buffer' = << >>
    /\ session' = session + 1
    /\ pc' = "streaming"
    /\ UNCHANGED << stop_tx, directory_state, delay_ms, request, attempts >>
    /\ UNCHANGED << last_event_id, events, notifications, frames, id_frame >>
    /\ UNCHANGED fineVars

\* Ok(response) if response.status().is_success(): stream_events starts
ConnectOk ==
    /\ pc = "sending"
    /\ statuses' = Append(statuses, StatusConnected(request.directory))
    /\ SessionStart
    /\ session' = session + 1
    /\ pc' = "streaming"
    /\ UNCHANGED << stop_tx, directory_state, delay_ms, request, attempts >>
    /\ UNCHANGED << buffer, last_event_id, events, notifications, frames, id_frame >>
    /\ UNCHANGED fineVars

\* Ok(response) with a status that is no success
ConnectHttpError ==
    /\ pc = "sending"
    /\ EndIteration(delay_ms, Append(statuses, StatusError("SSE HTTP")))
    /\ UNCHANGED << stop_tx, directory_state, request, attempts, session >>
    /\ UNCHANGED streamVars
    /\ UNCHANGED << last_line, fineVars >>

\* Err(err) of request.send()
ConnectFailed ==
    /\ pc = "sending"
    /\ EndIteration(delay_ms, Append(statuses, StatusError("SSE connect failed")))
    /\ UNCHANGED << stop_tx, directory_state, request, attempts, session >>
    /\ UNCHANGED streamVars
    /\ UNCHANGED << last_line, fineVars >>

\* stream.next() gives None: stream_events returns Ok(()), delay_ms = 500
StreamEnd ==
    /\ pc = "streaming"
    /\ EndIteration(DelayFloor, statuses)
    /\ UNCHANGED << stop_tx, directory_state, request, attempts, session >>
    /\ UNCHANGED streamVars
    /\ UNCHANGED << last_line, fineVars >>

\* faulty variant: a read error leaves delay_ms as the failures before the session left it
MutStreamError ==
    /\ pc = "streaming"
    /\ EndIteration(delay_ms, Append(statuses, StatusError("SSE read failed")))
    /\ UNCHANGED << stop_tx, directory_state, request, attempts, session >>
    /\ UNCHANGED streamVars
    /\ UNCHANGED << last_line, fineVars >>

\* let chunk = chunk?: stream_events returns Err, delay_ms = 500
StreamError ==
    /\ pc = "streaming"
    /\ EndIteration(DelayFloor, Append(statuses, StatusError("SSE read failed")))
    /\ UNCHANGED << stop_tx, directory_state, request, attempts, session >>
    /\ UNCHANGED streamVars
    /\ UNCHANGED << last_line, fineVars >>

\* a chunk arrives with the stop flag set: break, stream_events returns Ok(())
StreamBreak ==
    /\ pc = "streaming"
    /\ stop_tx
    /\ EndIteration(DelayFloor, statuses)
    /\ UNCHANGED << stop_tx, directory_state, request, attempts, session >>
    /\ UNCHANGED streamVars
    /\ UNCHANGED << last_line, fineVars >>

\* faulty variant: the loop ends when the sleep returns
MutSleepDone ==
    /\ pc = "sleeping"
    /\ delay_ms' = NextDelay(delay_ms)
    /\ pc' = "stopped"
    /\ UNCHANGED << stop_tx, directory_state, request, statuses, attempts, session >>
    /\ UNCHANGED streamVars
    /\ UNCHANGED << last_line, fineVars >>

\* sleep(delay_ms) returns; the delay doubles up to the ceiling
SleepDone ==
    /\ pc = "sleeping"
    /\ delay_ms' = NextDelay(delay_ms)
    /\ pc' = "top"
    /\ UNCHANGED << stop_tx, directory_state, request, statuses, attempts, session >>
    /\ UNCHANGED streamVars
    /\ UNCHANGED << last_line, fineVars >>

(***************************************************************************)
(* The foreground calls.                                                   *)
(***************************************************************************)
\* SseManager::stop
Stop ==
    /\ ~stop_tx
    /\ stop_tx' = TRUE
    /\ UNCHANGED << directory_state, pc, delay_ms, request, statuses, attempts, session >>
    /\ UNCHANGED streamVars
    /\ UNCHANGED << last_line, fineVars >>

\* SseManager::set_directory; a None directory arrives here as "".  The call
\* waits while the task holds the guard.
SetDirectory(dir) ==
    /\ "directory" \notin held
    /\ directory_state' = dir
    /\ UNCHANGED << stop_tx, pc, delay_ms, request, statuses, attempts, session >>
    /\ UNCHANGED streamVars
    /\ UNCHANGED << last_line, fineVars >>

(***************************************************************************)
(* The frame handler of stream_events: what a blank line does with the     *)
(* pending data buffer.                                                    *)
(***************************************************************************)
\* data_buf after a data: line.  The buffer is << >> when empty and else holds
\* one text; a second line joined by "\n" to a JSON object or to a text that is
\* no JSON gives a text that is no JSON.
PushData(text, tok) == IF text = << >> THEN << tok >> ELSE << BadJson >>

\* serde_json::from_str::<Value>(&data_buf) gives Ok
ParseOk(text) == text[1].valid

\* faulty variant: the parsed object is passed on whole, envelope or not
MutUnwrap(parsed) == parsed.body

\* the envelope is unwrapped: payload.take() when there is a "payload" key
Unwrap(parsed) == IF parsed.has_payload THEN parsed.payload ELSE parsed.body

\* value.get("type").and_then(|v| v.as_str())
EventType(v) == AsStr(v.type)

\* props.get("id").or_else(|| props.get("info").and_then(|i| i.get("id"))).as_str()
MsgId(v) == AsStr(OrElse(v.id, v.info_id))

\* props.get("role").or_else(|| info.role).as_str()
Role(v) == AsStr(OrElse(v.role, v.info_role))

\* props.get("status").or_else(|| info.status).as_str()
MsgStatus(v) == AsStr(OrElse(v.status, v.info_status))

\* parts_vec of the placeholder filter: properties.parts, else properties.info.parts
PartsVec(v) == ArrUnwrapOrDefault(ArrOrElse(v.parts, v.info_parts))

\* extract_model_mode: << model, mode >> of properties.info, and of
\* properties.message.info when properties.info gives neither
ExtractModelMode(v) ==
    LET direct == << AsStr(v.info_modelID), AsStr(v.info_mode) >>
        nested == << AsStr(v.message_info_modelID), AsStr(v.message_info_mode) >>
    IN  IF direct[1] # NoneV \/ direct[2] # NoneV THEN direct ELSE nested

\* message_info_cache.get(id).cloned().unwrap_or_else(|| ("unknown model", "unknown mode"))
CacheGet(cache, id) ==
    IF id \in DOMAIN cache THEN cache[id] ELSE << "unknown model", "unknown mode" >>

\* a.unwrap_or(b) on an Option<String>
UnwrapOr(a, b) == IF a # NoneV THEN a ELSE b

\* message_info_cache.insert(id, entry)
CacheInsert(cache, id, entry) ==
    [k \in DOMAIN cache \cup {id} |-> IF k = id THEN entry ELSE cache[k]]

\* faulty variant: a field the event lacks is set to its default, not kept
MutCacheMerge(cache, id, v) ==
    LET existing == << "unknown model", "unknown mode" >>
        found == ExtractModelMode(v)
    IN  IF found[1] # NoneV \/ found[2] # NoneV
          THEN CacheInsert(cache, id,
                           << UnwrapOr(found[1], existing[1]), UnwrapOr(found[2], existing[2]) >>)
          ELSE cache

\* the partial merge of the model and mode of an event into the cache entry of id
CacheMerge(cache, id, v) ==
    LET existing == CacheGet(cache, id)
        found == ExtractModelMode(v)
    IN  IF found[1] # NoneV \/ found[2] # NoneV
          THEN CacheInsert(cache, id,
                           << UnwrapOr(found[1], existing[1]), UnwrapOr(found[2], existing[2]) >>)
          ELSE cache

\* Metadata Caching: every message.updated with a message id is merged
CacheUpdate(cache, v) ==
    IF EventType(v) = "message.updated" /\ MsgId(v) # NoneV
      THEN CacheMerge(cache, MsgId(v), v)
      ELSE cache

\* faulty variant: the role is read from properties.role alone
MutSkipCurrentEvent(v) ==
    /\ EventType(v) = "message.updated"
    /\ AsStr(v.role) = "assistant"
    /\ PartsVec(v) = << >>

\* skip_current_event: message.updated of role assistant with no parts
SkipCurrentEvent(v) ==
    /\ EventType(v) = "message.updated"
    /\ Role(v) = "assistant"
    /\ PartsVec(v) = << >>

\* is_step_finish of message.updated: properties.parts only
IsStepFinish(v) ==
    /\ v.parts # NoArray
    /\ \E i \in 1..Len(v.parts) :
          v.parts[i].type = "step-finish" /\ v.parts[i].reason = "stop"

\* faulty variant: the reason of the part is not looked at
MutIsStop(v) == AsStr(v.part_type) = "step-finish"

\* is_stop of message.part.updated
IsStop(v) == AsStr(v.part_type) = "step-finish" /\ AsStr(v.part_reason) = "stop"

\* part.get("messageID").or_else(|| part.get("message_id")).as_str()
PartMsgId(v) == AsStr(OrElse(v.part_messageID, v.part_message_id))

\* the message id a non-skipped event is a completion signal for, NoneV if none
CompletionId(v) ==
    IF EventType(v) = "message.updated"
      THEN IF MsgStatus(v) = "completed" \/ IsStepFinish(v) THEN MsgId(v) ELSE NoneV
      ELSE IF EventType(v) = "message.part.updated"
             THEN IF IsStop(v) THEN PartMsgId(v) ELSE NoneV
             ELSE NoneV

\* faulty variant: the guard is never consulted
MutAlreadyNotified(guard, id) == FALSE

\* let already_notified = last_completed_id.as_deref() == Some(id)
AlreadyNotified(guard, id) == guard = id

\* the completion detector fires for event v under the guard
Fires(guard, v) == CompletionId(v) # NoneV /\ ~AlreadyNotified(guard, CompletionId(v))

(***************************************************************************)
(* The text of a notification.  A string that is formatted is the sequence *)
(* of its characters.                                                      *)
(***************************************************************************)
LowerCase ==
    << "a", "b", "c", "d", "e", "f", "g", "h", "i", "j", "k", "l", "m",
       "n", "o", "p", "q", "r", "s", "t", "u", "v", "w", "x", "y", "z" >>
UpperCase ==
    << "A", "B", "C", "D", "E", "F", "G", "H", "I", "J", "K", "L", "M",
       "N", "O", "P", "Q", "R", "S", "T", "U", "V", "W", "X", "Y", "Z" >>
\* char::is_ascii_digit
IsAsciiDigit(c) == c \in {"0", "1", "2", "3", "4", "5", "6", "7", "8", "9"}

\* char::to_ascii_uppercase, char::to_ascii_lowercase
ToAsciiUppercase(c) ==
    IF \E i \in 1..26 : LowerCase[i] = c
      THEN UpperCase[CHOOSE i \in 1..26 : LowerCase[i] = c]
      ELSE c
ToAsciiLowercase(c) ==
    IF \E i \in 1..26 : UpperCase[i] = c
      THEN LowerCase[CHOOSE i \in 1..26 : UpperCase[i] = c]
      ELSE c

UnknownModeText ==
    << "U", "n", "k", "n", "o", "w", "n", " ", "m", "o", "d", "e" >>
UnknownModelText ==
    << "U", "n", "k", "n", "o", "w", "n", " ", "m", "o", "d", "e", "l" >>
AgentIsReadyText ==
    << " ", "a", "g", "e", "n", "t", " ", "i", "s", " ", "r", "e", "a", "d",
       "y" >>
CompletedTheTaskText ==
    << " ", "c", "o", "m", "p", "l", "e", "t", "e", "d", " ", "t", "h", "e",
       " ", "t", "a", "s", "k" >>

\* faulty variant: the rest of the word is left as it is
MutCapitalize(t) ==
    IF t = << >> THEN << >> ELSE << ToAsciiUppercase(t[1]) >> \o Tail(t)

\* format!("{}{}", first.to_ascii_uppercase(), chars.as_str().to_ascii_lowercase())
\* of a string with a first character, String::new() of the empty one
Capitalize(t) ==
    IF t = << >>
      THEN << >>
      ELSE << ToAsciiUppercase(t[1]) >> \o [i \in 1..(Len(t) - 1) |-> ToAsciiLowercase(t[i + 1])]

\* formatted_mode
FormatMode(mode) == IF mode = << >> THEN UnknownModeText ELSE Capitalize(mode)

\* faulty variant: a dash is numeric when a digit comes before it
MutIsNumericDash(chars, idx) == idx > 1 /\ IsAsciiDigit(chars[idx - 1])

\* is_numeric_dash of the dash at idx (counted from 1)
IsNumericDash(chars, idx) ==
    /\ idx > 1 /\ IsAsciiDigit(chars[idx - 1])
    /\ idx < Len(chars) /\ IsAsciiDigit(chars[idx + 1])

\* the loop over chars from idx on, with the parts and the buffer so far, and
\* the push of a non-empty buffer after the loop
RECURSIVE ModelParts(_, _, _, _)
ModelParts(chars, idx, parts, word) ==
    IF idx > Len(chars)
      THEN IF word # << >> THEN Append(parts, word) ELSE parts
      ELSE IF chars[idx] = "-"
             THEN IF IsNumericDash(chars, idx)
                    THEN ModelParts(chars, idx + 1, parts, Append(word, "."))
                    ELSE IF word # << >>
                           THEN ModelParts(chars, idx + 1, Append(parts, word), << >>)
                           ELSE ModelParts(chars, idx + 1, parts, word)
             ELSE ModelParts(chars, idx + 1, parts, Append(word, chars[idx]))

\* [String]::join(" ")
RECURSIVE JoinSpace(_)
JoinSpace(parts) ==
    IF parts = << >> THEN << >>
    ELSE IF Len(parts) = 1 THEN parts[1]
    ELSE parts[1] \o << " " >> \o JoinSpace(Tail(parts))

IsNonEmpty(t) == t # << >>

\* formatted_model
FormatModel(model) ==
    IF model = << >>
      THEN UnknownModelText
      ELSE LET kept == SelectSeq(ModelParts(model, 1, << >>, << >>), IsNonEmpty)
               formatted_parts == [i \in 1..Len(kept) |-> Capitalize(kept[i])]
           IN  IF formatted_parts = << >>
                 THEN UnknownModelText
                 ELSE JoinSpace(formatted_parts)

\* format!("{} agent is ready", formatted_mode)
TitleOf(mode) == FormatMode(mode) \o AgentIsReadyText
\* format!("{} completed the task", formatted_model)
BodyOf(model) == FormatModel(model) \o CompletedTheTaskText

\* the characters of the model ids and modes of the events, String::chars
Chars(text) ==
    CASE text = "gpt-4" -> << "g", "p", "t", "-", "4" >>
      [] text = "gpt-5" -> << "g", "p", "t", "-", "5" >>
      [] text = "build" -> << "b", "u", "i", "l", "d" >>
      [] text = "plan" -> << "p", "l", "a", "n" >>
      [] text = "unknown model" ->
           << "u", "n", "k", "n", "o", "w", "n", " ", "m", "o", "d", "e", "l" >>
      [] text = "unknown mode" ->
           << "u", "n", "k", "n", "o", "w", "n", " ", "m", "o", "d", "e" >>
      [] text = "" -> << >>

AssistantReadyText ==
    << "A", "s", "s", "i", "s", "t", "a", "n", "t", " ", "R", "e", "a", "d", "y" >>
ModelText == << "M", "o", "d", "e", "l", " " >>
InText == << " ", "i", "n", " " >>
ModeFinishedWorkingText ==
    << " ", "m", "o", "d", "e", " ", "f", "i", "n", "i", "s", "h", "e", "d" >>
      \o << " ", "w", "o", "r", "k", "i", "n", "g", "." >>

\* format!("Model {} in {} mode finished working.", model_id, mode)
PartBodyOf(model_id, mode) ==
    ModelText \o model_id \o InText \o mode \o ModeFinishedWorkingText

\* faulty variant: a notification that fails to show is not recorded as requested
MutShow(shown, n) == IF n.ok THEN Append(shown, n) ELSE shown

\* let _ = app_handle.notification().builder()...show(): the request is made and
\* its result dropped
Show(shown, n) == Append(shown, n)

\* the notification requested for message id by event v: the pair read from the
\* cache, the title and the body of the event type's branch, and whether the
\* notification capability shows it
Notification(id, v, cache) ==
    LET raw == CacheGet(cache, id) IN
    [ id |-> id, type |-> EventType(v), raw |-> raw, ok |-> notify_ok,
      title |-> IF EventType(v) = "message.updated"
                  THEN TitleOf(Chars(raw[2]))
                  ELSE AssistantReadyText,
      body |-> IF EventType(v) = "message.updated"
                 THEN BodyOf(Chars(raw[1]))
                 ELSE PartBodyOf(Chars(raw[1]), Chars(raw[2])) ]

\* faulty variant: the oldest entry is dropped only once the capacity is exceeded
MutPushLate(guard, v) ==
    IF Len(guard) > max_buffer THEN Append(Tail(guard), v) ELSE Append(guard, v)

\* faulty variant: the event is inserted at the front
MutPushFront(guard, v) ==
    IF Len(guard) >= max_buffer THEN << v >> \o Tail(guard) ELSE << v >> \o guard

\* faulty variant: nothing is pushed while nobody has subscribed
MutPushSubscribed(guard, v) ==
    IF subscriber_count = 0 THEN guard
    ELSE IF Len(guard) >= max_buffer THEN Append(Tail(guard), v) ELSE Append(guard, v)

\* the replay buffer after the push: guard.remove(0) at capacity, guard.push(value)
Push(guard, v) ==
    IF Len(guard) >= max_buffer THEN Append(Tail(guard), v) ELSE Append(guard, v)

\* SseManager::replay_buffer, the snapshot: self.buffer.lock().clone()
replay_buffer == buffer

\* the history entry of a dispatched frame: its session, its data buffer, the id
\* of its id: line and the number of notifications shown once the completion
\* detector has seen it
Frame(text, shown) ==
    [session |-> session, data |-> text, id |-> event_id_buf, shown |-> shown]

\* the completion detector on a non-skipped event
Detect(v) ==
    IF Fires(last_completed_id, v)
      THEN /\ last_completed_id' = CompletionId(v)
           /\ notifications' =
                 Show(notifications,
                      Notification(CompletionId(v), v, CacheUpdate(message_info_cache, v)))
      ELSE UNCHANGED << last_completed_id, notifications >>

\* if let Some(ev_id) = event_id_buf.take() { *last_event_id = Some(ev_id); }
TakeEventId ==
    /\ event_id_buf' = NoneV
    /\ IF event_id_buf # NoneV
         THEN last_event_id' = event_id_buf /\ id_frame' = Len(frames')
         ELSE UNCHANGED << last_event_id, id_frame >>

\* a data: line: its text is appended to the data buffer
DataLine(tok, maxFrames) ==
    /\ pc = "streaming"
    /\ ~stop_tx
    /\ Len(frames) < maxFrames
    /\ data_buf' = PushData(data_buf, tok)
    /\ last_line' = "data"
    /\ UNCHANGED << buffer, last_event_id, event_id_buf, last_completed_id, value,
                    events, notifications, frames, id_frame, message_info_cache, buf >>
    /\ UNCHANGED connVars
    /\ UNCHANGED fineVars

\* an id: line: the pending event id
IdLine(id, maxFrames) ==
    /\ pc = "streaming"
    /\ ~stop_tx
    /\ Len(frames) < maxFrames
    /\ event_id_buf' = id
    /\ last_line' = "id"
    /\ UNCHANGED << buffer, last_event_id, data_buf, last_completed_id, value,
                    events, notifications, frames, id_frame, message_info_cache, buf >>
    /\ UNCHANGED connVars
    /\ UNCHANGED fineVars

\* a blank line with an empty data buffer: nothing is dispatched
BlankLineEmpty ==
    /\ pc = "streaming"
    /\ ~stop_tx
    /\ data_buf = << >>
    /\ last_line' = "blank"
    /\ UNCHANGED streamVars
    /\ UNCHANGED connVars
    /\ UNCHANGED fineVars

\* faulty variant: a frame that is no JSON ends the streaming session
MutBlankLineParseError ==
    /\ pc = "streaming"
    /\ ~stop_tx
    /\ data_buf # << >>
    /\ ~ParseOk(data_buf)
    /\ EndIteration(DelayFloor, Append(statuses, StatusParseError(data_buf)))
    /\ frames' = Append(frames, Frame(data_buf, Len(notifications)))
    /\ data_buf' = << >>
    /\ last_line' = "blank"
    /\ UNCHANGED << buffer, last_event_id, event_id_buf, last_completed_id, value,
                    events, notifications, id_frame, message_info_cache, buf >>
    /\ UNCHANGED << stop_tx, directory_state, request, attempts, session >>
    /\ UNCHANGED fineVars

\* a blank line ending a frame whose data is no JSON: the error diagnostic
BlankLineParseError ==
    /\ pc = "streaming"
    /\ ~stop_tx
    /\ data_buf # << >>
    /\ ~ParseOk(data_buf)
    /\ statuses' = Append(statuses, StatusParseError(data_buf))
    /\ frames' = Append(frames, Frame(data_buf, Len(notifications)))
    /\ data_buf' = << >>
    /\ last_line' = "blank"
    /\ UNCHANGED << buffer, last_event_id, event_id_buf, last_completed_id, value,
                    events, notifications, id_frame, message_info_cache, buf >>
    /\ UNCHANGED << stop_tx, directory_state, pc, delay_ms, request, attempts, session >>
    /\ UNCHANGED fineVars

\* faulty variant: the placeholder is dropped before its metadata is merged
MutBlankLineSkip ==
    /\ pc = "streaming"
    /\ ~stop_tx
    /\ data_buf # << >>
    /\ ParseOk(data_buf)
    /\ SkipCurrentEvent(Unwrap(data_buf[1]))
    /\ frames' = Append(frames, Frame(data_buf, Len(notifications)))
    /\ TakeEventId
    /\ data_buf' = << >>
    /\ last_line' = "blank"
    /\ UNCHANGED << buffer, last_completed_id, value, events, notifications,
                    message_info_cache, buf >>
    /\ UNCHANGED connVars
    /\ UNCHANGED fineVars

\* a blank line ending a frame whose event is skipped as a placeholder
BlankLineSkip ==
    /\ pc = "streaming"
    /\ ~stop_tx
    /\ data_buf # << >>
    /\ ParseOk(data_buf)
    /\ SkipCurrentEvent(Unwrap(data_buf[1]))
    /\ frames' = Append(frames, Frame(data_buf, Len(notifications)))
    /\ TakeEventId
    /\ message_info_cache' = CacheUpdate(message_info_cache, Unwrap(data_buf[1]))
    /\ data_buf' = << >>
    /\ last_line' = "blank"
    /\ UNCHANGED << buffer, last_completed_id, value, events, notifications, buf >>
    /\ UNCHANGED connVars
    /\ UNCHANGED fineVars

\* a blank line ending a frame that is handled whole: the completion detector,
\* the event id, the push and the emit
BlankLineDeliver ==
    /\ pc = "streaming"
    /\ ~stop_tx
    /\ data_buf # << >>
    /\ ParseOk(data_buf)
    /\ LET v == Unwrap(data_buf[1]) IN
         /\ ~SkipCurrentEvent(v)
         /\ Detect(v)
         /\ frames' = Append(frames, Frame(data_buf, Len(notifications')))
         /\ TakeEventId
         /\ buffer' = Push(buffer, v)
         /\ events' = Append(events, v)
         /\ message_info_cache' = CacheUpdate(message_info_cache, v)
    /\ data_buf' = << >>
    /\ last_line' = "blank"
    /\ UNCHANGED << value, buf >>
    /\ UNCHANGED connVars
    /\ UNCHANGED fineVars

(***************************************************************************)
(* The frame handler step by step, in the order of the source: the         *)
(* completion detector, the event id, the push, the emit.                  *)
(***************************************************************************)
\* a blank line ending a frame that is delivered: up to the completion detector
BlankLineDetect ==
    /\ pc = "streaming"
    /\ ~stop_tx
    /\ data_buf # << >>
    /\ ParseOk(data_buf)
    /\ LET v == Unwrap(data_buf[1]) IN
         /\ ~SkipCurrentEvent(v)
         /\ Detect(v)
         /\ frames' = Append(frames, Frame(data_buf, Len(notifications')))
         /\ value' = v
         /\ message_info_cache' = CacheUpdate(message_info_cache, v)
    /\ pc' = "frame_id"
    /\ last_line' = "blank"
    /\ UNCHANGED << buffer, last_event_id, data_buf, event_id_buf, events, id_frame, buf >>
    /\ UNCHANGED fineVars
    /\ UNCHANGED << stop_tx, directory_state, delay_ms, request, statuses, attempts, session >>

\* if let Some(ev_id) = event_id_buf.take() { *last_event_id = Some(ev_id); }
StepTakeId ==
    /\ pc = "frame_id"
    /\ UNCHANGED frames
    /\ TakeEventId
    /\ pc' = "frame_push"
    /\ UNCHANGED << buffer, data_buf, last_completed_id, value, events, notifications,
                    message_info_cache, buf >>
    /\ UNCHANGED << last_line, fineVars >>
    /\ UNCHANGED << stop_tx, directory_state, delay_ms, request, statuses, attempts, session >>

\* { let mut guard = buffer.lock(); ... guard.push(value.clone()); }
StepPush ==
    /\ pc = "frame_push"
    /\ buffer' = Push(buffer, value)
    /\ pc' = "frame_emit"
    /\ UNCHANGED << last_event_id, data_buf, event_id_buf, last_completed_id, value,
                    events, notifications, frames, id_frame, message_info_cache, buf >>
    /\ UNCHANGED << last_line, fineVars >>
    /\ UNCHANGED << stop_tx, directory_state, delay_ms, request, statuses, attempts, session >>

\* app_handle.emit("opencode:event", value); data_buf.clear()
StepEmit ==
    /\ pc = "frame_emit"
    /\ events' = Append(events, value)
    /\ data_buf' = << >>
    /\ value' = Ev0
    /\ pc' = "streaming"
    /\ UNCHANGED << buffer, last_event_id, event_id_buf, last_completed_id,
                    notifications, frames, id_frame, message_info_cache, buf >>
    /\ UNCHANGED << last_line, fineVars >>
    /\ UNCHANGED << stop_tx, directory_state, delay_ms, request, statuses, attempts, session >>

(***************************************************************************)
(* The guards.  The task takes the directory guard to read the target      *)
(* directory, the replay-buffer guard to push and the subscriber-count     *)
(* guard to read the count for a heartbeat; here taking a guard and the    *)
(* statements under it are steps of their own.  A foreground call waits    *)
(* while the task holds its guard.                                         *)
(***************************************************************************)
\* let guard = directory_state_for_task.lock(), the loop test having passed
LockDirectory(maxAttempts) ==
    /\ pc = "top"
    /\ ~stop_tx
    /\ attempts < maxAttempts
    /\ held' = held \cup {"directory"}
    /\ pc' = "directory_locked"
    /\ UNCHANGED << stop_tx, directory_state, delay_ms, request, statuses, attempts, session >>
    /\ UNCHANGED streamVars
    /\ UNCHANGED << last_line, wire, arrived, decoded, line, splits, subscriber_count >>
    /\ UNCHANGED sideVars

\* faulty variant: the guard lives to the end of the iteration, across the send
MutSendRequest ==
    /\ pc = "directory_locked"
    /\ request' = BuildRequest(directory_state, last_event_id)
    /\ attempts' = attempts + 1
    /\ pc' = "sending"
    /\ UNCHANGED << stop_tx, directory_state, delay_ms, statuses, session >>
    /\ UNCHANGED streamVars
    /\ UNCHANGED << last_line, fineVars >>

\* guard.clone() and the end of the block that drops the guard; the request is
\* built and sent
SendRequest ==
    /\ pc = "directory_locked"
    /\ request' = BuildRequest(directory_state, last_event_id)
    /\ held' = held \ {"directory"}
    /\ attempts' = attempts + 1
    /\ pc' = "sending"
    /\ UNCHANGED << stop_tx, directory_state, delay_ms, statuses, session >>
    /\ UNCHANGED streamVars
    /\ UNCHANGED << last_line, wire, arrived, decoded, line, splits, subscriber_count >>
    /\ UNCHANGED sideVars

\* let mut guard = buffer.lock()
StepLockBuffer ==
    /\ pc = "frame_push"
    /\ held' = held \cup {"buffer"}
    /\ pc' = "frame_locked"
    /\ UNCHANGED << stop_tx, directory_state, delay_ms, request, statuses, attempts, session >>
    /\ UNCHANGED streamVars
    /\ UNCHANGED << last_line, wire, arrived, decoded, line, splits, subscriber_count >>
    /\ UNCHANGED sideVars

\* guard.remove(0) at capacity, guard.push(value.clone()), the end of the block
StepPushLocked ==
    /\ pc = "frame_locked"
    /\ buffer' = Push(buffer, value)
    /\ held' = held \ {"buffer"}
    /\ pc' = "frame_emit"
    /\ UNCHANGED << last_event_id, data_buf, event_id_buf, last_completed_id, value,
                    events, notifications, frames, id_frame, message_info_cache, buf >>
    /\ UNCHANGED << stop_tx, directory_state, delay_ms, request, statuses, attempts, session >>
    /\ UNCHANGED << last_line, wire, arrived, decoded, line, splits, subscriber_count >>
    /\ UNCHANGED sideVars

\* the heartbeats emitted so far
IsHeartbeat(st) == st.heartbeat
Heartbeats == SelectSeq(statuses, IsHeartbeat)

\* a line is read more than 20 s after the last heartbeat: subscriber_count.read()
HeartbeatLock(maxHeartbeats) ==
    /\ pc = "streaming"
    /\ ~stop_tx
    /\ Len(Heartbeats) < maxHeartbeats
    /\ held' = held \cup {"subscriber_count"}
    /\ pc' = "heartbeat"
    /\ UNCHANGED << stop_tx, directory_state, delay_ms, request, statuses, attempts, session >>
    /\ UNCHANGED streamVars
    /\ UNCHANGED << last_line, wire, arrived, decoded, line, splits, subscriber_count >>
    /\ UNCHANGED sideVars

\* let current_subscribers = *subscriber_count.read(); the heartbeat is emitted
HeartbeatEmit ==
    /\ pc = "heartbeat"
    /\ held' = held \ {"subscriber_count"}
    /\ statuses' = Append(statuses, StatusHeartbeat(subscriber_count))
    /\ pc' = "streaming"
    /\ UNCHANGED << stop_tx, directory_state, delay_ms, request, attempts, session >>
    /\ UNCHANGED streamVars
    /\ UNCHANGED << last_line, wire, arrived, decoded, line, splits, subscriber_count >>
    /\ UNCHANGED sideVars

\* faulty variant: the caller is handed the storage of the live buffer
MutClone(guard) == [taken |-> TRUE, shares |-> TRUE, data |-> guard]

\* Vec::clone of the locked buffer: a vector of its own with the same entries
Clone(guard) == [taken |-> TRUE, shares |-> FALSE, data |-> guard]

\* what the holder of a vector reads in it: the live buffer's entries when the
\* storage is shared, the vector's own otherwise
View(vec) == IF vec.shares THEN buffer ELSE vec.data

\* faulty variant: the snapshot reads the buffer of a manager that is not installed
MutSnapshot ==
    /\ "buffer" \notin held
    /\ snapshot' = Clone(buffer)
    /\ UNCHANGED connVars
    /\ UNCHANGED streamVars
    /\ UNCHANGED << last_line, wire, arrived, decoded, line, splits, held, subscriber_count >>
    /\ UNCHANGED << now, last_heartbeat, window_events, notify_ok,
                    sse_manager, session_from, subscribed_at,
                    raw_model, raw_mode,
                    title, body_text >>

\* opencode_events_snapshot: SseManager::replay_buffer of the installed manager,
\* Vec::new() without one
Snapshot ==
    /\ IF sse_manager = "installed"
         THEN /\ "buffer" \notin held
              /\ snapshot' = Clone(buffer)
         ELSE snapshot' = Clone(<< >>)
    /\ UNCHANGED connVars
    /\ UNCHANGED streamVars
    /\ UNCHANGED << last_line, wire, arrived, decoded, line, splits, held, subscriber_count >>
    /\ UNCHANGED << now, last_heartbeat, window_events, notify_ok,
                    sse_manager, session_from, subscribed_at,
                    raw_model, raw_mode,
                    title, body_text >>

\* SseManager::increment_subscribers
IncrementSubscribers(maxSubscribers) ==
    /\ "subscriber_count" \notin held
    /\ subscriber_count < maxSubscribers
    /\ subscriber_count' = subscriber_count + 1
    /\ UNCHANGED connVars
    /\ UNCHANGED streamVars
    /\ UNCHANGED << last_line, wire, arrived, decoded, line, splits, held >>
    /\ UNCHANGED sideVars

\* faulty variant: the first entry of the vector is not emitted
MutEmitAll(vec) == IF View(vec) = << >> THEN << >> ELSE Tail(View(vec))

\* for payload in manager.replay_buffer() { window.emit("opencode:event", payload) }
EmitAll(vec) == View(vec)

\* opencode_events_subscribe: increment_subscribers, then the replay buffer is
\* emitted to the calling window
Subscribe(maxSubscribers, maxReplays) ==
    IF sse_manager = "installed"
      THEN /\ "subscriber_count" \notin held
           /\ "buffer" \notin held
           /\ subscriber_count < maxSubscribers
           /\ Len(window_events) < maxReplays
           /\ subscriber_count' = subscriber_count + 1
           /\ window_events' = Append(window_events, EmitAll(Clone(buffer)))
           /\ subscribed_at' = Len(events)
           /\ UNCHANGED connVars
           /\ UNCHANGED streamVars
           /\ UNCHANGED << last_line, wire, arrived, decoded, line, splits, held >>
           /\ UNCHANGED << now, last_heartbeat, snapshot, notify_ok,
                           sse_manager, session_from,
                           raw_model, raw_mode,
                           title, body_text >>
      ELSE UNCHANGED vars

\* opencode_events_replay: the replay buffer is emitted to the calling window
Replay(maxReplays) ==
    IF sse_manager = "installed"
      THEN /\ "buffer" \notin held
           /\ Len(window_events) < maxReplays
           /\ window_events' = Append(window_events, EmitAll(Clone(buffer)))
           /\ UNCHANGED connVars
           /\ UNCHANGED streamVars
           /\ UNCHANGED << last_line, wire, arrived, decoded, line, splits, held,
                           subscriber_count >>
           /\ UNCHANGED << now, last_heartbeat, snapshot, notify_ok,
                           sse_manager, session_from, subscribed_at,
                           raw_model, raw_mode,
                           title, body_text >>
      ELSE UNCHANGED vars

\* the notification capability stops showing notifications: show() gives Err
NotifierFails ==
    /\ notify_ok
    /\ notify_ok' = FALSE
    /\ UNCHANGED connVars
    /\ UNCHANGED streamVars
    /\ UNCHANGED << last_line, wire, arrived, decoded, line, splits, held, subscriber_count >>
    /\ UNCHANGED << now, last_heartbeat, snapshot, window_events,
                    sse_manager, session_from, subscribed_at,
                    raw_model, raw_mode,
                    title, body_text >>

\* the notification capability shows notifications again: show() gives Ok
NotifierRecovers ==
    /\ ~notify_ok
    /\ notify_ok' = TRUE
    /\ UNCHANGED connVars
    /\ UNCHANGED streamVars
    /\ UNCHANGED << last_line, wire, arrived, decoded, line, splits, held, subscriber_count >>
    /\ UNCHANGED << now, last_heartbeat, snapshot, window_events,
                    sse_manager, session_from, subscribed_at,
                    raw_model, raw_mode,
                    title, body_text >>

\* faulty variant: the count is decremented without saturation
MutDecrementSubscribers ==
    /\ "subscriber_count" \notin held
    /\ subscriber_count' = subscriber_count - 1
    /\ UNCHANGED connVars
    /\ UNCHANGED streamVars
    /\ UNCHANGED << last_line, wire, arrived, decoded, line, splits, held >>
    /\ UNCHANGED sideVars

\* SseManager::decrement_subscribers: guard.saturating_sub(1)
DecrementSubscribers ==
    /\ "subscriber_count" \notin held
    /\ subscriber_count' = IF subscriber_count = 0 THEN 0 ELSE subscriber_count - 1
    /\ UNCHANGED connVars
    /\ UNCHANGED streamVars
    /\ UNCHANGED << last_line, wire, arrived, decoded, line, splits, held >>
    /\ UNCHANGED sideVars

\* opencode_events_unsubscribe
Unsubscribe ==
    IF sse_manager = "installed" THEN DecrementSubscribers ELSE UNCHANGED vars

\* opencode_events_set_directory
CommandSetDirectory(dir) ==
    IF sse_manager = "installed" THEN SetDirectory(dir) ELSE UNCHANGED vars

\* DesktopRuntime::start_sse once SseManager::start has returned: the manager
\* is stored
InstallManager ==
    /\ sse_manager = "pending"
    /\ sse_manager' = "installed"
    /\ UNCHANGED connVars
    /\ UNCHANGED streamVars
    /\ UNCHANGED << last_line, wire, arrived, decoded, line, splits, held, subscriber_count >>
    /\ UNCHANGED << now, last_heartbeat, snapshot, window_events, notify_ok,
                    session_from, subscribed_at, raw_model, raw_mode, title, body_text >>

\* DesktopRuntime::shutdown: the manager, if one is stored, is taken and stopped
Shutdown ==
    /\ IF sse_manager = "installed"
         THEN /\ sse_manager' = "taken"
              /\ stop_tx' = TRUE
         ELSE UNCHANGED << sse_manager, stop_tx >>
    /\ UNCHANGED << directory_state, pc, delay_ms, request, statuses, attempts, session >>
    /\ UNCHANGED streamVars
    /\ UNCHANGED << last_line, wire, arrived, decoded, line, splits, held, subscriber_count >>
    /\ UNCHANGED << now, last_heartbeat, snapshot, window_events, notify_ok,
                    session_from, subscribed_at, raw_model, raw_mode, title, body_text >>

(***************************************************************************)
(* The byte reader of stream_events.  Here a string is the sequence of its *)
(* characters and an Option<String> is the sequence of none or one string. *)
(***************************************************************************)
LF == "\n"
CR == "\r"
\* char::is_whitespace, of the characters on the wires
Whitespace == {" ", "\t", LF, CR}

DataPrefix == << "d", "a", "t", "a", ":" >>
IdPrefix == << "i", "d", ":" >>

\* buf.iter().position(|b| *b == b'\n'), counted from 1; 0 for None
Position(b) ==
    IF \E i \in DOMAIN b : b[i] = LF
      THEN CHOOSE i \in DOMAIN b : b[i] = LF /\ \A j \in 1..(i - 1) : b[j] # LF
      ELSE 0

\* while line_bytes.last() is b'\n' or b'\r' { line_bytes.pop(); }
RECURSIVE StripEol(_)
StripEol(l) ==
    IF l # << >> /\ l[Len(l)] \in {LF, CR}
      THEN StripEol(SubSeq(l, 1, Len(l) - 1))
      ELSE l

\* str::starts_with and the rest that str::strip_prefix gives
StartsWith(l, prefix) == Len(l) >= Len(prefix) /\ SubSeq(l, 1, Len(prefix)) = prefix
StripPrefix(l, prefix) == SubSeq(l, Len(prefix) + 1, Len(l))

\* str::trim_start, str::trim_end, str::trim
RECURSIVE TrimStart(_)
TrimStart(t) == IF t # << >> /\ t[1] \in Whitespace THEN TrimStart(Tail(t)) ELSE t
RECURSIVE TrimEnd(_)
TrimEnd(t) ==
    IF t # << >> /\ t[Len(t)] \in Whitespace
      THEN TrimEnd(SubSeq(t, 1, Len(t) - 1))
      ELSE t
Trim(t) == TrimEnd(TrimStart(t))

\* serde_json::from_str::<Value>(text) gives Ok.  Of the texts the wires
\* below carry, the JSON values are the empty object {} with any whitespace.
IsNoSpace(c) == c \notin Whitespace
JsonOk(text) == SelectSeq(text, IsNoSpace) = << "{", "}" >>

\* Option<String>: None and Some(t)
NoBytes == << >>
SomeBytes(t) == << t >>

\* what one line does to the pending data, the pending id and the frames
\* dispatched; st is the record of data_buf, event_id_buf and decoded
LineEffect(st, l) ==
    IF StartsWith(l, << ":" >>) THEN st
    ELSE IF l = << >> THEN
        IF st.data_buf # << >>
          THEN [ data_buf |-> << >>,
                 event_id_buf |-> IF JsonOk(st.data_buf) THEN NoBytes ELSE st.event_id_buf,
                 decoded |-> Append(st.decoded,
                                    [data |-> st.data_buf, id |-> st.event_id_buf]) ]
          ELSE st
    ELSE IF StartsWith(l, DataPrefix) THEN
        [st EXCEPT !.data_buf =
            (IF @ # << >> THEN Append(@, LF) ELSE @) \o TrimStart(StripPrefix(l, DataPrefix))]
    ELSE IF StartsWith(l, IdPrefix) THEN
        [st EXCEPT !.event_id_buf = SomeBytes(Trim(StripPrefix(l, IdPrefix)))]
    ELSE st

\* the kind of a line, for the history
LineKind(l) ==
    IF StartsWith(l, << ":" >>) THEN "comment"
    ELSE IF l = << >> THEN "blank"
    ELSE IF StartsWith(l, DataPrefix) THEN "data"
    ELSE IF StartsWith(l, IdPrefix) THEN "id"
    ELSE "other"

\* the bytes of b after its last line feed
RECURSIVE Unterminated(_)
Unterminated(b) ==
    IF Position(b) = 0 THEN b ELSE Unterminated(SubSeq(b, Position(b) + 1, Len(b)))

\* the kinds of boundary a chunk ends on: between \r and \n, inside a data: or
\* id: prefix, elsewhere inside a line
SplitKinds(b, n) ==
    LET rest == Unterminated(b) IN
      (IF rest # << >> /\ rest[Len(rest)] = CR /\ n < Len(wire) /\ wire[n + 1] = LF
         THEN {"crlf"} ELSE {})
      \cup (IF \/ \E k \in 1..4 : rest = SubSeq(DataPrefix, 1, k)
               \/ \E k \in 1..2 : rest = SubSeq(IdPrefix, 1, k)
              THEN {"prefix"} ELSE {})
      \cup (IF rest # << >> THEN {"line"} ELSE {})

\* faulty variant: the bytes left over from the chunk before are forgotten
MutExtend(b, chunk) == chunk

\* buf.extend_from_slice(&chunk)
Extend(b, chunk) == b \o chunk

\* stream.next() gives a chunk of n bytes with the stop flag clear
ChunkArrives(n) ==
    /\ pc = "streaming"
    /\ ~stop_tx
    /\ arrived + n <= Len(wire)
    /\ buf' = Extend(buf, SubSeq(wire, arrived + 1, arrived + n))
    /\ arrived' = arrived + n
    /\ splits' = splits \cup SplitKinds(buf', arrived')
    /\ pc' = "lines"
    /\ UNCHANGED << buffer, last_event_id, data_buf, event_id_buf, last_completed_id,
                    value, events, notifications, frames, id_frame, message_info_cache >>
    /\ UNCHANGED << stop_tx, directory_state, delay_ms, request, statuses, attempts, session >>
    /\ UNCHANGED << last_line, wire, decoded, line, held, subscriber_count >>
    /\ UNCHANGED sideVars

\* last_heartbeat.elapsed() > Duration::from_secs(20)
HeartbeatDue == now - last_heartbeat > HeartbeatEvery

\* the heartbeat diagnostic with the count read under its guard, emitted now
HeartbeatNow == [StatusHeartbeat(subscriber_count) EXCEPT !.at = now]

\* time passes by d seconds while the task awaits the next chunk
TimePasses(d, maxClock) ==
    /\ pc = "streaming"
    /\ now + d <= maxClock
    /\ now' = now + d
    /\ UNCHANGED connVars
    /\ UNCHANGED streamVars
    /\ UNCHANGED << last_line, wire, arrived, decoded, line, splits, held, subscriber_count >>
    /\ UNCHANGED << last_heartbeat, snapshot, window_events, notify_ok,
                    sse_manager, session_from, subscribed_at,
                    raw_model,
                    raw_mode, title, body_text >>

\* faulty variant: the stop flag is not read between the lines of a chunk
MutLineTake ==
    /\ pc = "lines"
    /\ IF Position(buf) = 0
         THEN /\ pc' = "streaming"
              /\ UNCHANGED << buf, line >>
         ELSE /\ buf' = SubSeq(buf, Position(buf) + 1, Len(buf))
              /\ line' = StripEol(SubSeq(buf, 1, Position(buf)))
              /\ pc' = "line"
    /\ UNCHANGED << buffer, last_event_id, data_buf, event_id_buf, last_completed_id,
                    value, events, notifications, frames, id_frame, message_info_cache >>
    /\ UNCHANGED << stop_tx, directory_state, delay_ms, request, statuses, attempts, session >>
    /\ UNCHANGED << last_line, wire, arrived, decoded, splits, held, subscriber_count >>
    /\ UNCHANGED sideVars

\* one turn of the inner loop: the next line is drained from buf and the stop
\* flag is read; a set flag breaks the loop and the drained line is dropped
LineTake ==
    /\ pc = "lines"
    /\ IF Position(buf) = 0
         THEN /\ pc' = "streaming"
              /\ UNCHANGED << buf, line, statuses, last_heartbeat >>
         ELSE /\ buf' = SubSeq(buf, Position(buf) + 1, Len(buf))
              /\ IF stop_tx
                   THEN /\ line' = << >>
                        /\ pc' = "streaming"
                        /\ UNCHANGED << statuses, last_heartbeat >>
                   ELSE /\ line' = StripEol(SubSeq(buf, 1, Position(buf)))
                        /\ pc' = "line"
                        /\ IF HeartbeatDue
                             THEN /\ statuses' = Append(statuses, HeartbeatNow)
                                  /\ last_heartbeat' = now
                             ELSE UNCHANGED << statuses, last_heartbeat >>
    /\ UNCHANGED << buffer, last_event_id, data_buf, event_id_buf, last_completed_id,
                    value, events, notifications, frames, id_frame, message_info_cache >>
    /\ UNCHANGED << stop_tx, directory_state, delay_ms, request, attempts, session >>
    /\ UNCHANGED << last_line, wire, arrived, decoded, splits, held, subscriber_count >>
    /\ UNCHANGED << now, snapshot, window_events, notify_ok,
                    sse_manager, session_from, subscribed_at,
                    raw_model, raw_mode,
                    title, body_text >>

\* the drained line is handled: a comment, a blank line that dispatches the
\* pending data, a data: line, an id: line, any other line
LineHandle ==
    /\ pc = "line"
    /\ LET st == LineEffect([data_buf |-> data_buf, event_id_buf |-> event_id_buf,
                             decoded |-> decoded], line)
       IN  /\ data_buf' = st.data_buf
           /\ event_id_buf' = st.event_id_buf
           /\ decoded' = st.decoded
    /\ IF line = << >> /\ data_buf # << >>
         THEN IF JsonOk(data_buf)
                THEN /\ IF event_id_buf # NoBytes
                          THEN last_event_id' = event_id_buf /\ id_frame' = Len(decoded')
                          ELSE UNCHANGED << last_event_id, id_frame >>
                     /\ buffer' = Push(buffer, Ev0)
                     /\ events' = Append(events, Ev0)
                     /\ UNCHANGED statuses
                ELSE /\ statuses' = Append(statuses, StatusParseError(data_buf))
                     /\ UNCHANGED << last_event_id, id_frame, buffer, events >>
         ELSE UNCHANGED << last_event_id, id_frame, buffer, events, statuses >>
    /\ last_line' = LineKind(line)
    /\ line' = << >>
    /\ pc' = "lines"
    /\ UNCHANGED << last_completed_id, value, notifications, frames, message_info_cache, buf >>
    /\ UNCHANGED << stop_tx, directory_state, delay_ms, request, attempts, session >>
    /\ UNCHANGED << wire, arrived, splits, held, subscriber_count >>
    /\ UNCHANGED sideVars

\* faulty variant: the pending data and the pending id outlive the session
MutSessionStartBytes ==
    /\ UNCHANGED << data_buf, event_id_buf >>
    /\ last_completed_id' = NoneV
    /\ message_info_cache' = << >>
    /\ buf' = << >>
    /\ value' = Ev0
    /\ last_line' = "none"

\* the state of a fresh stream_events call, with strings as their characters
SessionStartBytes ==
    /\ data_buf' = << >>
    /\ event_id_buf' = NoBytes
    /\ last_completed_id' = NoneV
    /\ message_info_cache' = << >>
    /\ buf' = << >>
    /\ value' = Ev0
    /\ last_line' = "none"

\* Ok(response) if response.status().is_success(): stream_events starts to
\* read the bytes that follow those the sessions before it took
ConnectOkBytes ==
    /\ pc = "sending"
    /\ statuses' = Append(statuses, StatusConnected(request.directory))
    /\ SessionStartBytes
    /\ session' = session + 1
    /\ session_from' = [arrived |-> arrived, decoded |-> Len(decoded)]
    /\ pc' = "streaming"
    /\ UNCHANGED << stop_tx, directory_state, delay_ms, request, attempts >>
    /\ UNCHANGED << buffer, last_event_id, events, notifications, frames, id_frame >>
    /\ UNCHANGED << wire, arrived, decoded, line, splits, held, subscriber_count >>
    /\ UNCHANGED << now, last_heartbeat, snapshot, window_events, notify_ok,
                    sse_manager, subscribed_at, raw_model, raw_mode, title, body_text >>

(***************************************************************************)
(* The specifications.                                                     *)
(***************************************************************************)
\* the frame specification: every kind of frame, connections that succeed
Next ==
    \/ BeginAttempt(MaxAttempts)
    \/ ConnectOk
    \/ StreamEnd
    \/ SleepDone
    \/ \E tok \in Payloads : DataLine(tok, MaxFrames)
    \/ BlankLineEmpty
    \/ BlankLineParseError
    \/ BlankLineSkip
    \/ BlankLineDeliver

Spec == Init /\ [][Next]_vars

\* the connector specification: every outcome of a connection, frames with
\* id: lines
NextConn ==
    \/ BeginAttempt(MaxConnAttempts)
    \/ ConnectOk
    \/ ConnectHttpError
    \/ ConnectFailed
    \/ StreamEnd
    \/ StreamError
    \/ SleepDone
    \/ \E tok \in ConnPayloads : DataLine(tok, MaxConnFrames)
    \/ \E id \in ConnEventIds : IdLine(id, MaxConnFrames)
    \/ BlankLineEmpty
    \/ BlankLineParseError
    \/ BlankLineSkip
    \/ BlankLineDeliver

SpecConn == Init /\ [][NextConn]_vars

\* the directory specification: the foreground calls set_directory and stop at
\* any moment of the loop
NextDir ==
    \/ BeginAttempt(MaxConnAttempts)
    \/ ConnectOk
    \/ ConnectFailed
    \/ StreamEnd
    \/ StreamBreak
    \/ SleepDone
    \/ Stop
    \/ \E dir \in Directories : SetDirectory(dir)
    \/ DataLine(Envelope(SessionIdle), MaxConnFrames)
    \/ BlankLineEmpty
    \/ BlankLineParseError
    \/ BlankLineDeliver

SpecDir == Init /\ [][NextDir]_vars

\* the stop specification: the directory specification with the progress the
\* task makes by itself.  The loop test and the end of a sleep always come; a
\* response, a chunk or the end of a stream comes only if the server or the
\* network sends one: the client sets connect_timeout alone, no read timeout.
SpecStop ==
    /\ Init
    /\ [][NextDir]_vars
    /\ WF_vars(BeginAttempt(MaxConnAttempts))
    /\ WF_vars(SleepDone)

\* the loop specification: stop is never called, and every network operation
\* and every sleep returns
NextLoop ==
    \/ BeginAttempt(MaxConnAttempts)
    \/ ConnectOk
    \/ ConnectHttpError
    \/ ConnectFailed
    \/ StreamEnd
    \/ StreamError
    \/ SleepDone

SpecLoop ==
    /\ Init
    /\ [][NextLoop]_vars
    /\ WF_vars(BeginAttempt(MaxConnAttempts))
    /\ WF_vars(ConnectOk \/ ConnectHttpError \/ ConnectFailed)
    /\ WF_vars(StreamEnd \/ StreamError)
    /\ WF_vars(SleepDone)

\* the guard specification: the task takes and drops its guards step by step
\* while the foreground calls come at any moment
NextLocks ==
    \/ LockDirectory(MaxConnAttempts)
    \/ SendRequest
    \/ ConnectOk
    \/ ConnectFailed
    \/ StreamEnd
    \/ SleepDone
    \/ DataLine(Envelope(SessionIdle), MaxLockFrames)
    \/ BlankLineDetect
    \/ StepTakeId
    \/ StepLockBuffer
    \/ StepPushLocked
    \/ StepEmit
    \/ HeartbeatLock(MaxHeartbeats)
    \/ HeartbeatEmit
    \/ Snapshot
    \/ IncrementSubscribers(MaxSubscribers)
    \/ DecrementSubscribers
    \/ \E dir \in Directories : SetDirectory(dir)

SpecLocks == Init /\ [][NextLocks]_vars

\* the backoff specification: every connection attempt fails at once
NextBackoff ==
    \/ BeginAttempt(MaxBackoffAttempts)
    \/ ConnectHttpError
    \/ ConnectFailed
    \/ SleepDone

SpecBackoff == Init /\ [][NextBackoff]_vars

\* the state in which the first streaming session starts
InitStreaming ==
    /\ stop_tx = FALSE
    /\ buffer = << >>
    /\ directory_state = ""
    /\ pc = "streaming"
    /\ delay_ms = DelayFloor
    /\ last_event_id = NoneV
    /\ request = BuildRequest("", NoneV)
    /\ data_buf = << >>
    /\ event_id_buf = NoneV
    /\ last_completed_id = NoneV
    /\ value = Ev0
    /\ events = << >>
    /\ statuses = << StatusConnected("") >>
    /\ notifications = << >>
    /\ attempts = 1
    /\ session = 1
    /\ frames = << >>
    /\ id_frame = 0
    /\ message_info_cache = << >>
    /\ buf = << >>
    /\ last_line = "none"
    /\ wire = << >>
    /\ arrived = 0
    /\ decoded = << >>
    /\ line = << >>
    /\ splits = {}
    /\ held = {}
    /\ subscriber_count = 0
    /\ now = 0
    /\ last_heartbeat = 0
    /\ snapshot = NoSnapshot
    /\ window_events = << >>
    /\ notify_ok = TRUE
    /\ sse_manager = "installed"
    /\ session_from = NoSession
    /\ subscribed_at = 0
    /\ raw_model = << >>
    /\ raw_mode = << >>
    /\ title = << >>
    /\ body_text = << >>

\* the n-th of a stream of events that all differ
Digit == << "0", "1", "2", "3", "4", "5", "6", "7", "8", "9" >>
Tick(n) ==
    [Ev0 EXCEPT !.type = "tick", !.id = Digit[(n \div 100) + 1],
                !.info_id = Digit[((n \div 10) % 10) + 1], !.status = Digit[(n % 10) + 1]]

\* the replay-buffer specification: one session delivering more events than the
\* buffer holds
NextReplay ==
    \/ DataLine(Bare(Tick(Len(frames) + 1)), max_buffer + MaxExtraPushes)
    \/ BlankLineDeliver

SpecReplay == InitStreaming /\ [][NextReplay]_vars

\* the metadata specification: one session of message.updated frames that
\* carry model ids and modes
NextMeta ==
    \/ \E tok \in MetaPayloads : DataLine(tok, MaxMetaFrames)
    \/ BlankLineSkip
    \/ BlankLineDeliver

SpecMeta == InitStreaming /\ [][NextMeta]_vars

\* the step specification: the frame handler statement by statement
NextSteps ==
    \/ BeginAttempt(MaxConnAttempts)
    \/ ConnectOk
    \/ StreamEnd
    \/ SleepDone
    \/ \E tok \in ConnPayloads : DataLine(tok, MaxConnFrames)
    \/ \E id \in ConnEventIds : IdLine(id, MaxConnFrames)
    \/ BlankLineEmpty
    \/ BlankLineParseError
    \/ BlankLineSkip
    \/ BlankLineDetect
    \/ StepTakeId
    \/ StepPush
    \/ StepEmit

SpecSteps == Init /\ [][NextSteps]_vars

\* the byte streams of the byte specification: CRLF and LF line ends, a
\* comment, ids, a frame of two data lines that is no JSON, a frame with no
\* data line
Obj == << "{", "}" >>
CRLF == << CR, LF >>
WireCrLf ==
    IdPrefix \o << " ", "7" >> \o CRLF \o DataPrefix \o << " " >> \o Obj \o CRLF \o CRLF
    \o DataPrefix \o Obj \o CRLF \o CRLF
WireLf ==
    << ":", "k", LF >> \o DataPrefix \o Obj \o << LF >>
    \o DataPrefix \o << " ", "x", LF, LF >>
    \o IdPrefix \o << "8", LF, LF >>
    \o DataPrefix \o << " " >> \o Obj \o << " ", LF, LF >>
Wires == {WireCrLf, WireLf}

\* the state in which a streaming session starts to read one of the wires
InitBytes ==
    /\ stop_tx = FALSE
    /\ buffer = << >>
    /\ directory_state = ""
    /\ pc = "streaming"
    /\ delay_ms = DelayFloor
    /\ last_event_id = NoBytes
    /\ request = BuildRequest("", NoBytes)
    /\ data_buf = << >>
    /\ event_id_buf = NoBytes
    /\ last_completed_id = NoneV
    /\ value = Ev0
    /\ events = << >>
    /\ statuses = << StatusConnected("") >>
    /\ notifications = << >>
    /\ attempts = 1
    /\ session = 1
    /\ frames = << >>
    /\ id_frame = 0
    /\ message_info_cache = << >>
    /\ buf = << >>
    /\ last_line = "none"
    /\ wire \in Wires
    /\ arrived = 0
    /\ decoded = << >>
    /\ line = << >>
    /\ splits = {}
    /\ held = {}
    /\ subscriber_count = 0
    /\ now = 0
    /\ last_heartbeat = 0
    /\ snapshot = NoSnapshot
    /\ window_events = << >>
    /\ notify_ok = TRUE
    /\ sse_manager = "installed"
    /\ session_from = NoSession
    /\ subscribed_at = 0
    /\ raw_model = << >>
    /\ raw_mode = << >>
    /\ title = << >>
    /\ body_text = << >>

\* the byte specification: one session that reads a wire in chunks of any
\* sizes, with stop at any moment
NextBytes ==
    \/ \E n \in 1..Len(wire) : ChunkArrives(n)
    \/ LineTake
    \/ LineHandle
    \/ StreamEnd
    \/ StreamBreak
    \/ Stop

SpecBytes == InitBytes /\ [][NextBytes]_vars

\* the time specification: one session that reads a wire of a frame and a
\* comment, in chunks that arrive at any time or never
WireBeat == DataPrefix \o Obj \o << LF, LF, ":", LF >>

InitTime ==
    /\ stop_tx = FALSE
    /\ buffer = << >>
    /\ directory_state = ""
    /\ pc = "streaming"
    /\ delay_ms = DelayFloor
    /\ last_event_id = NoBytes
    /\ request = BuildRequest("", NoBytes)
    /\ data_buf = << >>
    /\ event_id_buf = NoBytes
    /\ last_completed_id = NoneV
    /\ value = Ev0
    /\ events = << >>
    /\ statuses = << StatusConnected("") >>
    /\ notifications = << >>
    /\ attempts = 1
    /\ session = 1
    /\ frames = << >>
    /\ id_frame = 0
    /\ message_info_cache = << >>
    /\ buf = << >>
    /\ last_line = "none"
    /\ wire = WireBeat
    /\ arrived = 0
    /\ decoded = << >>
    /\ line = << >>
    /\ splits = {}
    /\ held = {}
    /\ subscriber_count = 0
    /\ now = 0
    /\ last_heartbeat = 0
    /\ snapshot = NoSnapshot
    /\ window_events = << >>
    /\ notify_ok = TRUE
    /\ sse_manager = "installed"
    /\ session_from = NoSession
    /\ subscribed_at = 0
    /\ raw_model = << >>
    /\ raw_mode = << >>
    /\ title = << >>
    /\ body_text = << >>

NextTime ==
    \/ \E n \in 1..Len(wire) : ChunkArrives(n)
    \/ LineTake
    \/ LineHandle
    \/ \E d \in {1, HeartbeatEvery} : TimePasses(d, MaxClock)
    \/ StreamEnd

SpecTime == InitTime /\ [][NextTime]_vars

\* the snapshot specification: a session that has delivered Filled events goes
\* on to deliver more than the buffer holds, and snapshots are taken at any
\* moment
Filled == max_buffer - MaxExtraPushes

InitFilling ==
    /\ stop_tx = FALSE
    /\ buffer = [i \in 1..Filled |-> Tick(i)]
    /\ directory_state = ""
    /\ pc = "streaming"
    /\ delay_ms = DelayFloor
    /\ last_event_id = NoneV
    /\ request = BuildRequest("", NoneV)
    /\ data_buf = << >>
    /\ event_id_buf = NoneV
    /\ last_completed_id = NoneV
    /\ value = Ev0
    /\ events = [i \in 1..Filled |-> Tick(i)]
    /\ statuses = << StatusConnected("") >>
    /\ notifications = << >>
    /\ attempts = 1
    /\ session = 1
    /\ frames = [i \in 1..Filled |->
                    [session |-> 1, data |-> << Bare(Tick(i)) >>, id |-> NoneV,
                     shown |-> 0]]
    /\ id_frame = 0
    /\ message_info_cache = << >>
    /\ buf = << >>
    /\ last_line = "none"
    /\ wire = << >>
    /\ arrived = 0
    /\ decoded = << >>
    /\ line = << >>
    /\ splits = {}
    /\ held = {}
    /\ subscriber_count = 0
    /\ now = 0
    /\ last_heartbeat = 0
    /\ snapshot = NoSnapshot
    /\ window_events = << >>
    /\ notify_ok = TRUE
    /\ sse_manager = "installed"
    /\ session_from = NoSession
    /\ subscribed_at = 0
    /\ raw_model = << >>
    /\ raw_mode = << >>
    /\ title = << >>
    /\ body_text = << >>

NextSnapshot ==
    \/ DataLine(Bare(Tick(Len(frames) + 1)), max_buffer + MaxExtraPushes)
    \/ BlankLineDeliver
    \/ Snapshot

SpecSnapshot == InitFilling /\ [][NextSnapshot]_vars

\* the subscriber specification: one session with frames, id: lines and
\* heartbeats while windows subscribe and unsubscribe at any moment
SubscriberPayloads ==
    { Bare(PartStop("m1")), Envelope(SessionIdle), Bare(Placeholder("m1")) }

NextSubscribers ==
    \/ \E tok \in SubscriberPayloads : DataLine(tok, MaxSubscriberFrames)
    \/ \E id \in ConnEventIds : IdLine(id, MaxSubscriberFrames)
    \/ BlankLineSkip
    \/ BlankLineDeliver
    \/ HeartbeatLock(MaxHeartbeats)
    \/ HeartbeatEmit
    \/ Subscribe(MaxSubscribers, MaxReplays)
    \/ DecrementSubscribers

SpecSubscribers == InitStreaming /\ [][NextSubscribers]_vars

\* the notifier specification: one session of frames, some of them completion
\* signals and some not parseable, while the notification capability fails and
\* recovers at any moment; the session may end or break
NotifierPayloads ==
    { Bare(PartStop("m1")), Bare(UpdCompleted("m2")), Envelope(SessionIdle), BadJson }

NextNotifier ==
    \/ \E tok \in NotifierPayloads : DataLine(tok, MaxNotifierFrames)
    \/ BlankLineParseError
    \/ BlankLineDeliver
    \/ StreamEnd
    \/ StreamError
    \/ NotifierFails
    \/ NotifierRecovers

SpecNotifier == InitStreaming /\ [][NextNotifier]_vars

\* the reconnect specification: every outcome of a connection, sessions of one
\* frame with or without an id: line, and stop at any moment
NextReconnect ==
    \/ BeginAttempt(MaxConnAttempts)
    \/ ConnectOk
    \/ ConnectHttpError
    \/ ConnectFailed
    \/ StreamEnd
    \/ StreamError
    \/ StreamBreak
    \/ SleepDone
    \/ Stop
    \/ DataLine(Envelope(SessionIdle), MaxLockFrames)
    \/ IdLine("e1", MaxLockFrames)
    \/ BlankLineDeliver

SpecReconnect == Init /\ [][NextReconnect]_vars

\* the session specification: sessions that read, one after the other, a byte
\* stream in chunks of any sizes and that end at any byte of it
MaxSessions == 2
WireCut ==
    IdPrefix \o << "7", LF >> \o DataPrefix \o Obj \o << LF >>
    \o DataPrefix \o Obj \o << LF, LF >>

InitSessions ==
    /\ stop_tx = FALSE
    /\ buffer = << >>
    /\ directory_state = ""
    /\ pc = "top"
    /\ delay_ms = DelayFloor
    /\ last_event_id = NoBytes
    /\ request = BuildRequest("", NoBytes)
    /\ data_buf = << >>
    /\ event_id_buf = NoBytes
    /\ last_completed_id = NoneV
    /\ value = Ev0
    /\ events = << >>
    /\ statuses = << >>
    /\ notifications = << >>
    /\ attempts = 0
    /\ session = 0
    /\ frames = << >>
    /\ id_frame = 0
    /\ message_info_cache = << >>
    /\ buf = << >>
    /\ last_line = "none"
    /\ wire = WireCut
    /\ arrived = 0
    /\ decoded = << >>
    /\ line = << >>
    /\ splits = {}
    /\ held = {}
    /\ subscriber_count = 0
    /\ now = 0
    /\ last_heartbeat = 0
    /\ snapshot = NoSnapshot
    /\ window_events = << >>
    /\ notify_ok = TRUE
    /\ sse_manager = "installed"
    /\ session_from = NoSession
    /\ subscribed_at = 0
    /\ raw_model = << >>
    /\ raw_mode = << >>
    /\ title = << >>
    /\ body_text = << >>

NextSessions ==
    \/ BeginAttempt(MaxSessions)
    \/ ConnectOkBytes
    \/ \E n \in 1..Len(wire) : ChunkArrives(n)
    \/ LineTake
    \/ LineHandle
    \/ StreamEnd
    \/ StreamError
    \/ SleepDone

SpecSessions == InitSessions /\ [][NextSessions]_vars

\* the subscribe specification: one session whose frames are handled step by
\* step while a window subscribes and unsubscribes at any moment
NextSubscribe ==
    \/ \E tok \in SubscriberPayloads : DataLine(tok, MaxSubscriberFrames)
    \/ \E id \in ConnEventIds : IdLine(id, MaxSubscriberFrames)
    \/ BlankLineSkip
    \/ BlankLineDetect
    \/ StepTakeId
    \/ StepLockBuffer
    \/ StepPushLocked
    \/ StepEmit
    \/ Subscribe(MaxSubscribers, MaxReplays)
    \/ DecrementSubscribers

SpecSubscribe == InitStreaming /\ [][NextSubscribe]_vars

\* the placeholder specification: one session of placeholders with and without
\* metadata, completion signals of the same message and id: lines
PlaceholderMeta ==
    [Placeholder("m1") EXCEPT !.info_modelID = "gpt-4", !.info_mode = "build"]
PlaceholderPayloads ==
    { Bare(PlaceholderMeta), Bare(Placeholder("m1")), Bare(PartStop("m1")),
      Envelope(UpdCompleted("m1")) }

NextPlaceholder ==
    \/ \E tok \in PlaceholderPayloads : DataLine(tok, MaxMetaFrames)
    \/ \E id \in ConnEventIds : IdLine(id, MaxMetaFrames)
    \/ BlankLineSkip
    \/ BlankLineDeliver

SpecPlaceholder == InitStreaming /\ [][NextPlaceholder]_vars

\* the delay specification: connection attempts that fail or are refused and
\* sessions that end, in any order
NextDelayLoop ==
    \/ BeginAttempt(MaxBackoffAttempts)
    \/ ConnectOk
    \/ ConnectHttpError
    \/ ConnectFailed
    \/ StreamEnd
    \/ StreamError
    \/ SleepDone
    \/ Stop

SpecDelay == Init /\ [][NextDelayLoop]_vars

\* the count specification: windows subscribe and unsubscribe in any order
\* while the task delivers a frame and reads the count for a heartbeat
MaxCallers == 3

NextCount ==
    \/ Subscribe(MaxCallers, MaxCallers)
    \/ DecrementSubscribers
    \/ HeartbeatLock(MaxHeartbeats)
    \/ HeartbeatEmit
    \/ DataLine(Envelope(SessionIdle), MaxLockFrames)
    \/ BlankLineDeliver

SpecCount == InitStreaming /\ [][NextCount]_vars

\* the buffer specification: sessions that end and are followed by a reconnect,
\* failed attempts, frames that are delivered, suppressed or not parseable,
\* and the foreground calls at any moment
BufferPayloads == {Envelope(SessionIdle), Bare(Placeholder("m1")), BadJson}

NextBuffer ==
    \/ BeginAttempt(MaxAttempts)
    \/ ConnectOk
    \/ ConnectFailed
    \/ StreamEnd
    \/ SleepDone
    \/ \E tok \in BufferPayloads : DataLine(tok, MaxSubscriberFrames)
    \/ BlankLineParseError
    \/ BlankLineSkip
    \/ BlankLineDeliver
    \/ SetDirectory("/proj")
    \/ Subscribe(MaxSubscribers, MaxReplays)
    \/ DecrementSubscribers
    \/ Snapshot

SpecBuffer == Init /\ [][NextBuffer]_vars

\* the runtime specification: the task runs from SseManager::start on, the
\* manager is stored later and taken by shutdown, and the commands are called
\* at any moment
InitRuntime ==
    /\ stop_tx = FALSE
    /\ buffer = << >>
    /\ directory_state = ""
    /\ pc = "top"
    /\ delay_ms = DelayFloor
    /\ last_event_id = NoneV
    /\ request = NoRequest
    /\ data_buf = << >>
    /\ event_id_buf = NoneV
    /\ last_completed_id = NoneV
    /\ value = Ev0
    /\ events = << >>
    /\ statuses = << >>
    /\ notifications = << >>
    /\ attempts = 0
    /\ session = 0
    /\ frames = << >>
    /\ id_frame = 0
    /\ message_info_cache = << >>
    /\ buf = << >>
    /\ last_line = "none"
    /\ wire = << >>
    /\ arrived = 0
    /\ decoded = << >>
    /\ line = << >>
    /\ splits = {}
    /\ held = {}
    /\ subscriber_count = 0
    /\ now = 0
    /\ last_heartbeat = 0
    /\ snapshot = NoSnapshot
    /\ window_events = << >>
    /\ notify_ok = TRUE
    /\ sse_manager = "pending"
    /\ session_from = NoSession
    /\ subscribed_at = 0
    /\ raw_model = << >>
    /\ raw_mode = << >>
    /\ title = << >>
    /\ body_text = << >>

NextRuntime ==
    \/ InstallManager
    \/ Shutdown
    \/ BeginAttempt(MaxAttempts)
    \/ ConnectOk
    \/ StreamEnd
    \/ SleepDone
    \/ DataLine(Envelope(SessionIdle), MaxLockFrames)
    \/ BlankLineDeliver
    \/ Snapshot
    \/ Subscribe(MaxSubscribers, MaxReplays)
    \/ Unsubscribe
    \/ Replay(MaxReplays)
    \/ CommandSetDirectory("/proj")

SpecRuntime == InitRuntime /\ [][NextRuntime]_vars

\* the lifetime specification: sessions that end and are followed by a reconnect,
\* frames that carry metadata and frames that signal a completion
LifetimePayloads ==
    { Bare(Meta("m1", "gpt-4", "build")), Bare(PartStop("m1")),
      Bare(UpdCompleted("m1")) }

NextLifetime ==
    \/ BeginAttempt(MaxAttempts)
    \/ ConnectOk
    \/ StreamEnd
    \/ SleepDone
    \/ \E tok \in LifetimePayloads : DataLine(tok, MaxFrames)
    \/ BlankLineDeliver

SpecLifetime == Init /\ [][NextLifetime]_vars

\* the completion specification: one streaming session whose frames are
\* message.updated and message.part.updated events of every shape the
\* completion detector tells apart
CompletionPayloads ==
    { Bare(UpdCompleted("m1")), Envelope(UpdStepFinish("m1")),
      Bare(UpdInfoStepFinish("m1")), Bare(UpdRunning("m2")),
      Bare(Placeholder("m2")),
      Bare(PartStop("m1")), Bare(PartText("m1")),
      Bare([PartStop("m2") EXCEPT !.part_messageID = Absent, !.part_message_id = "m2"]),
      Bare([PartStop("m1") EXCEPT !.part_reason = "tool-calls"]),
      Bare([PartStop("m1") EXCEPT !.part_messageID = Absent]) }

NextCompletion ==
    \/ \E tok \in CompletionPayloads : DataLine(tok, MaxCompletionFrames)
    \/ BlankLineSkip
    \/ BlankLineDeliver

SpecCompletion == InitStreaming /\ [][NextCompletion]_vars

\* the inputs of the formatter specification: every string of letters, digits
\* and dashes up to a length, and the model ids and modes of the examples
FormatAlphabet == {"a", "B", "3", "-"}
ClaudeModelText ==
    << "c", "l", "a", "u", "d", "e", "-", "3", "-", "5", "-", "s", "o", "n",
       "n", "e", "t" >>
BuildModeText ==
    << "B", "U", "I", "L", "D" >>
ModelInputs ==
    UNION {[1..k -> FormatAlphabet] : k \in 0..MaxModelLen} \cup {ClaudeModelText}
ModeInputs == {<< >>, BuildModeText, << "p", "l", "a", "n" >>, << "3", "D" >>}

\* the state in which the formatter is given a raw model id and a raw mode
InitFormat ==
    /\ stop_tx = FALSE
    /\ buffer = << >>
    /\ directory_state = ""
    /\ pc = "format"
    /\ delay_ms = DelayFloor
    /\ last_event_id = NoneV
    /\ request = NoRequest
    /\ data_buf = << >>
    /\ event_id_buf = NoneV
    /\ last_completed_id = NoneV
    /\ value = Ev0
    /\ events = << >>
    /\ statuses = << >>
    /\ notifications = << >>
    /\ attempts = 0
    /\ session = 0
    /\ frames = << >>
    /\ id_frame = 0
    /\ message_info_cache = << >>
    /\ buf = << >>
    /\ last_line = "none"
    /\ wire = << >>
    /\ arrived = 0
    /\ decoded = << >>
    /\ line = << >>
    /\ splits = {}
    /\ held = {}
    /\ subscriber_count = 0
    /\ now = 0
    /\ last_heartbeat = 0
    /\ snapshot = NoSnapshot
    /\ window_events = << >>
    /\ notify_ok = TRUE
    /\ sse_manager = "installed"
    /\ session_from = NoSession
    /\ subscribed_at = 0
    /\ raw_model \in ModelInputs
    /\ raw_mode \in ModeInputs
    /\ title = << >>
    /\ body_text = << >>

\* the title and the body of the message.updated notification are composed
Compose ==
    /\ pc = "format"
    /\ title' = TitleOf(raw_mode)
    /\ body_text' = BodyOf(raw_model)
    /\ pc' = "formatted"
    /\ UNCHANGED << stop_tx, directory_state, delay_ms, request, statuses, attempts, session >>
    /\ UNCHANGED streamVars
    /\ UNCHANGED << last_line, wire, arrived, decoded, line, splits, held, subscriber_count >>
    /\ UNCHANGED << now, last_heartbeat, snapshot, window_events, notify_ok,
                    sse_manager, session_from, subscribed_at,
                    raw_model, raw_mode >>

\* the formatter specification
NextFormat == Compose

SpecFormat == InitFormat /\ [][NextFormat]_vars

(***************************************************************************)
(* Properties.  These read the history: frames holds every dispatched      *)
(* frame in arrival order.                                                 *)
(***************************************************************************)
Max(S) == CHOOSE x \in S : \A y \in S : y <= x

\* the last n entries of seq
LastN(seq, n) == SubSeq(seq, Len(seq) - n + 1, Len(seq))

\* the frame was parsed and was no placeholder
Deliverable(f) == ParseOk(f.data) /\ ~SkipCurrentEvent(Unwrap(f.data[1]))

\* the events of the deliverable frames, in arrival order
Arrived ==
    LET ok == SelectSeq(frames, Deliverable)
    IN  [i \in 1..Len(ok) |-> Unwrap(ok[i].data[1])]

\* the number of notifications frame k fired
FiredBy(k) == frames[k].shown - (IF k = 1 THEN 0 ELSE frames[k - 1].shown)

\* C1: a message id is notified at most once in a manager lifetime, whatever
\* frames, disconnects and reconnects happen.
C1_AtMostOncePerId ==
    \A m \in MsgIds :
        Cardinality({i \in DOMAIN notifications : notifications[i].id = m}) <= 1

\* the message id frame k is a completion signal for, as C2 lists them:
\* message.updated with status completed or with a step-finish/stop part,
\* message.part.updated with a step-finish/stop part
C2_TriggerId(k) ==
    LET f == frames[k]
        v == Unwrap(f.data[1])
        id == IF v.id # Absent THEN v.id ELSE v.info_id
        status == IF v.status # Absent THEN v.status ELSE v.info_status
    IN  IF ~Deliverable(f) THEN NoneV
        ELSE IF v.type = "message.updated"
               THEN IF status = "completed" \/ (v.parts # NoArray /\ \E i \in DOMAIN v.parts : v.parts[i] = StopPart)
                      THEN id ELSE NoneV
        ELSE IF v.type = "message.part.updated" /\ v.part_type = "step-finish" /\ v.part_reason = "stop"
               THEN v.part_messageID
        ELSE NoneV

\* the completion-triggering frame before frame k in k's session, 0 if none
C2_Prev(k) ==
    LET S == {i \in 1..(k - 1) : frames[i].session = frames[k].session /\ C2_TriggerId(i) # NoneV}
    IN  IF S = {} THEN 0 ELSE Max(S)

\* C2: of two consecutive completion-triggering frames of one session for the
\* same message id the second fires nothing, and when the first one starts the
\* run of that id the two fire exactly one notification, for that id.
C2_ConsecutiveOnce ==
    \A j \in DOMAIN frames :
        LET p == C2_Prev(j) IN
        (p # 0 /\ C2_TriggerId(j) # NoneV /\ C2_TriggerId(p) = C2_TriggerId(j)) =>
            /\ FiredBy(j) = 0
            /\ (C2_Prev(p) = 0 \/ C2_TriggerId(C2_Prev(p)) # C2_TriggerId(p)) =>
                  /\ FiredBy(p) + FiredBy(j) = 1
                  /\ notifications[frames[p].shown].id = C2_TriggerId(p)

\* two consecutive completion signals of different kinds for m1, the first fired
C2_Witness ==
    /\ Len(frames) = 2
    /\ frames[1].session = frames[2].session
    /\ frames[1].data = << Bare(UpdCompleted("m1")) >>
    /\ frames[2].data = << Bare(PartStop("m1")) >>
    /\ Len(notifications) = 1

\* C3: the replay buffer never holds more than 256 events, and it holds the
\* last min(N, 256) of the N events pushed, in arrival order.
C3_ReplayLastC ==
    /\ Len(buffer) <= 256
    /\ Len(Arrived) > 256 => Len(replay_buffer) = 256
    /\ replay_buffer = LastN(Arrived, Min(Len(Arrived), 256))

\* more events were pushed than the buffer holds and the oldest were evicted
C3_Witness ==
    /\ Len(Arrived) >= 256 + 2
    /\ Len(replay_buffer) = 256
    /\ replay_buffer[1] = Tick(Len(Arrived) - 255)
    /\ replay_buffer[256] = Tick(Len(Arrived))

\* C4: the events delivered on the live-event channel are the events pushed to
\* the replay buffer, and both are the events of the parsed, non-suppressed
\* frames in arrival order (over the sessions of the lifetime, hence in each).
C4_ArrivalOrder ==
    /\ events = Arrived
    /\ buffer = LastN(events, Min(Len(events), max_buffer))
    /\ \A i, j \in DOMAIN frames : i <= j => frames[i].session <= frames[j].session

\* two different events were delivered and other frames were dropped
C4_Witness ==
    /\ Len(events) = 2
    /\ events[1] # events[2]
    /\ Len(frames) = 3
    /\ ~Deliverable(frames[2])

\* the placeholder as C5 words it: message.updated, role (properties.role or
\* properties.info.role) assistant, parts list empty or absent
C5_Placeholder(v) ==
    /\ v.type = "message.updated"
    /\ (IF v.role # Absent THEN v.role ELSE v.info_role) = "assistant"
    /\ (IF v.parts # NoArray THEN v.parts ELSE v.info_parts) \in {NoArray, << >>}

\* C5: the frame of a placeholder is not delivered, not pushed, fires no
\* notification and leaves the completion guard alone.
C5_PlaceholderDropped ==
    [][ ( /\ Len(frames') = Len(frames) + 1
          /\ frames'[Len(frames')].data[1].valid
          /\ C5_Placeholder(Unwrap(frames'[Len(frames')].data[1])) )
        => ( /\ events' = events
             /\ buffer' = buffer
             /\ notifications' = notifications
             /\ last_completed_id' = last_completed_id ) ]_vars

\* a placeholder with status completed for m1 was dropped while the guard held m2
C5_Witness ==
    /\ Len(frames) = 2
    /\ frames[2].data = << Bare(Placeholder("m1")) >>
    /\ Placeholder("m1").status = "completed"
    /\ last_completed_id = "m2"
    /\ Len(events) = 1
    /\ Len(buffer) = 1
    /\ Len(notifications) = 1

IsReconnecting(s) == s.status = "reconnecting"

\* the reconnecting diagnostics, in order
Reconnects == SelectSeq(statuses, IsReconnecting)

\* C6: while no connection has succeeded the reconnecting diagnostics carry
\* 500, 1000, 2000, 4000, 8000, 8000, ... and the task sleeps the delay of the
\* last one.
C6_BackoffSequence ==
    session = 0 =>
        /\ \A i \in DOMAIN Reconnects :
              /\ Reconnects[i].delay_ms = << 500, 1000, 2000, 4000, 8000, 8000 >>[Min(i, 6)]
              /\ i > 1 => Reconnects[i].delay_ms = Min(2 * Reconnects[i - 1].delay_ms, 8000)
        /\ pc = "sleeping" => delay_ms = Reconnects[Len(Reconnects)].delay_ms

\* the sixth failure in a row: the delay stays at the ceiling
C6_Witness ==
    /\ session = 0
    /\ pc = "sleeping"
    /\ Len(Reconnects) = 6
    /\ delay_ms = 8000

\* C7: the backoff that follows a streaming session, however it ended and
\* whatever failures came before it, carries and sleeps 500 ms.
C7_ResetAfterStream ==
    [][ (pc = "streaming" /\ pc' = "sleeping")
        => ( /\ delay_ms' = 500
             /\ Len(statuses') > Len(statuses)
             /\ statuses'[Len(statuses')] = StatusReconnecting(500, last_event_id) ) ]_vars

\* two failures, then a session that ended in a read error: the delay is 500 again
C7_Witness ==
    /\ pc = "sleeping"
    /\ delay_ms = 500
    /\ Len(Reconnects) = 3
    /\ Reconnects[2].delay_ms = 1000
    /\ statuses[Len(statuses) - 1] = StatusError("SSE read failed")

\* C8: a set_directory call changes nothing but the target directory, and a
\* connection attempt uses, in its request and its connected diagnostic, the
\* directory read when the attempt began.
C8_DirectoryAtConnect ==
    [][ /\ directory_state' # directory_state =>
              /\ UNCHANGED << stop_tx, pc, delay_ms, request, statuses, attempts, session >>
              /\ UNCHANGED streamVars
              /\ UNCHANGED << last_line, fineVars >>
        /\ attempts' = attempts + 1 => request'.directory = directory_state
        /\ attempts' = attempts => request' = request
        /\ session' = session + 1 =>
              statuses'[Len(statuses')] = StatusConnected(request.directory) ]_vars

\* the directory changed while the first session was delivering; that session
\* went on and the second attempt asks for the new directory
C8_Witness ==
    /\ attempts = 2
    /\ session = 2
    /\ statuses[1] = StatusConnected("")
    /\ request.directory = "/proj"
    /\ Len(events) = 2
    /\ frames[1].session = 1
    /\ frames[2].session = 2

\* C9: last_event_id changes only when a frame with an id: line is handled, so
\* no disconnect, failure or backoff resets it, and each request carries its
\* value of the moment (no header while it is unset).
C9_LastEventIdKept ==
    [][ /\ last_event_id' # last_event_id =>
              /\ pc = "streaming"
              /\ Len(frames') = Len(frames) + 1
              /\ event_id_buf # NoneV
              /\ last_event_id' = event_id_buf
        /\ attempts' = attempts + 1 => request'.last_event_id = last_event_id ]_vars

\* an id learned in the first session is sent by the third attempt, after a
\* failed second one
C9_Witness ==
    /\ attempts = 3
    /\ pc = "sending"
    /\ request.last_event_id = "e2"
    /\ last_event_id = "e2"
    /\ statuses[Len(statuses) - 1] = StatusError("SSE HTTP")

\* the deliverable frames among the first k
DeliverableUpTo(k) == Cardinality({i \in 1..k : Deliverable(frames[i])})

\* C10: when last_event_id carries the id of a delivered frame, that frame's
\* event has been pushed to the replay buffer and delivered.
C10_IdAfterDelivery ==
    (id_frame # 0 /\ Deliverable(frames[id_frame])) =>
        /\ Len(events) >= DeliverableUpTo(id_frame)
        /\ Len(buffer) >= Min(DeliverableUpTo(id_frame), max_buffer)

\* C11: a frame whose data is no JSON gives exactly one error diagnostic that
\* carries the raw buffer; no event is emitted and nothing is pushed for it, the
\* session goes on without a backoff, and a well-formed frame that follows in
\* the session is still buffered and delivered.
C11_ParseErrorContained ==
    /\ [][ (Len(frames') = Len(frames) + 1 /\ ~ParseOk(data_buf)) =>
              /\ statuses' = Append(statuses, StatusParseError(data_buf))
              /\ statuses'[Len(statuses')].raw = data_buf
              /\ UNCHANGED << events, buffer, notifications >>
              /\ UNCHANGED << pc, delay_ms, session, attempts >> ]_vars
    /\ [](\A k \in DOMAIN frames : \A j \in DOMAIN frames :
            ( /\ k < j
              /\ frames[k].session = frames[j].session
              /\ ~ParseOk(frames[k].data)
              /\ Deliverable(frames[j]) ) =>
            /\ \E i \in DOMAIN events : events[i] = Unwrap(frames[j].data[1])
            /\ \E i \in DOMAIN buffer : buffer[i] = Unwrap(frames[j].data[1]))

\* a frame that is no JSON was followed, in the same session, by a frame that
\* was delivered
C11_Witness ==
    /\ Len(frames) = 2
    /\ ~ParseOk(frames[1].data)
    /\ Deliverable(frames[2])
    /\ frames[1].session = frames[2].session
    /\ Len(events) = 1
    /\ Len(buffer) = 1
    /\ \E i \in DOMAIN statuses : statuses[i] = StatusParseError(<< BadJson >>)
    /\ pc = "streaming"

\* C12: after every blank line that ends a frame, delivered, suppressed, failed
\* to parse or without data lines, the pending data buffer and the pending event
\* id are both empty.
C12_BuffersCleared ==
    (pc = "streaming" /\ last_line = "blank") =>
        (data_buf = << >> /\ event_id_buf = NoneV)

\* the frames, pending data and pending id that the bytes give when they all
\* arrive as one chunk: the lines of b are handled one after the other
RECURSIVE DecodeLines(_, _)
DecodeLines(st, b) ==
    IF Position(b) = 0
      THEN st
      ELSE DecodeLines(LineEffect(st, StripEol(SubSeq(b, 1, Position(b)))),
                       SubSeq(b, Position(b) + 1, Len(b)))
DecodeWhole(b) ==
    DecodeLines([data_buf |-> << >>, event_id_buf |-> NoBytes, decoded |-> << >>], b)

\* C13: however a byte stream is split into read chunks, inside a line, inside
\* a data: or id: prefix or between \r and \n, the frames decoded from it (data
\* and id) are those decoded when the bytes arrive as one chunk.
C13_ChunkInvariance ==
    (pc # "lines" /\ pc # "line" /\ ~stop_tx) =>
        LET whole == DecodeWhole(SubSeq(wire, 1, arrived)) IN
          /\ decoded = whole.decoded
          /\ data_buf = whole.data_buf
          /\ event_id_buf = whole.event_id_buf

\* the whole CRLF stream has arrived in chunks that ended between \r and \n
\* and inside a prefix, and its two frames were decoded
C13_Witness ==
    /\ wire = WireCrLf
    /\ arrived = Len(wire)
    /\ pc = "streaming"
    /\ ~stop_tx
    /\ {"crlf", "prefix"} \subseteq splits
    /\ decoded = << [data |-> Obj, id |-> SomeBytes(<< "7" >>)],
                    [data |-> Obj, id |-> NoBytes] >>

\* C15: the stop flag is read once per line of a chunk: once it is set, only the
\* line that is already past its stop test is still handled, so at most one
\* further frame is pushed or delivered, and the lines that still sit in the
\* accumulator are never handled.
C15_StopPerLine ==
    [][ stop_tx =>
          /\ pc # "line" =>
                /\ pc' # "line"
                /\ UNCHANGED << buffer, events, decoded, data_buf, event_id_buf,
                                last_event_id, statuses >>
          /\ pc = "line" =>
                /\ pc' = "lines"
                /\ Len(buffer') <= Len(buffer) + 1
                /\ Len(events') <= Len(events) + 1
                /\ Len(decoded') <= Len(decoded) + 1 ]_vars

\* the stop flag was set while the blank line that ends a frame was past its
\* stop test, with further whole lines in the accumulator
C15_Witness ==
    /\ stop_tx
    /\ pc = "line"
    /\ line = << >>
    /\ data_buf # << >>
    /\ Position(buf) > 0

\* C14: once stop() has set the stop flag the task reaches Stopped from
\* whichever state it is in, a read of an idle stream included, and from then on
\* it issues no connection attempt and emits no event and no diagnostic.
C14_StopReachesStopped ==
    /\ stop_tx ~> (pc = "stopped")
    /\ [][ pc = "stopped" =>
              UNCHANGED << pc, attempts, request, events, statuses, buffer,
                           notifications >> ]_vars

\* C16: with the stop flag set, the end of a backoff sleep leads to Stopped
\* without another connection attempt, and the end of a connection attempt or
\* of a streaming session leads to Stopped without a reconnecting diagnostic
\* and without a sleep.
C16_StopSkipsBackoff ==
    [][ stop_tx =>
          /\ UNCHANGED << attempts, request >>
          /\ Reconnects' = Reconnects
          /\ pc' # pc =>
                /\ pc' # "sleeping"
                /\ pc = "sleeping" => pc' = "top"
                /\ pc = "top" => pc' = "stopped"
                /\ pc = "sending" => pc' \in {"streaming", "stopped"}
                /\ pc = "streaming" => pc' = "stopped" ]_vars

\* stop was set during the sleep after the second attempt: every attempt has
\* its reconnecting diagnostic and the task has stopped without a third
C16_Witness ==
    /\ stop_tx
    /\ pc = "stopped"
    /\ attempts = 2
    /\ Len(Reconnects) = 2
    /\ delay_ms = 2000

\* C17: while stop is never called, a failed connect, a non-success status, a
\* read error and the end of a stream each lead to Backoff and then to a new
\* connection attempt: the task never stops and never gets stuck, so attempt
\* follows attempt (here up to the bound on attempts).
C17_AlwaysRetries ==
    /\ [](pc # "stopped")
    /\ [][ (pc \in {"sending", "streaming"} /\ pc' \notin {pc, "streaming"}) =>
              (pc' = "sleeping" /\ Len(Reconnects') = Len(Reconnects) + 1) ]_vars
    /\ \A n \in 0..(MaxConnAttempts - 1) : (attempts = n) ~> (attempts = n + 1)

\* the third attempt is under way after a session ended by a read error and an
\* attempt that failed to connect, each followed by a backoff
C17_Witness ==
    /\ attempts = 3
    /\ pc = "sending"
    /\ ~stop_tx
    /\ Len(Reconnects) = 2
    /\ \E i \in DOMAIN statuses : statuses[i] = StatusError("SSE read failed")
    /\ \E i \in DOMAIN statuses : statuses[i] = StatusError("SSE connect failed")

\* the task awaits the response to a request, awaits a chunk or sleeps
Waiting == pc \in {"sending", "streaming", "sleeping"}

\* C18: whenever the task waits on the network (the request, the next chunk) or
\* sleeps in backoff it holds none of the guards of the replay buffer, the
\* subscriber count and the target directory, so snapshot, subscribe,
\* unsubscribe and set_directory are never kept waiting by it.
C18_NoGuardWhileWaiting ==
    Waiting =>
        /\ held = {}
        /\ ENABLED Snapshot
        /\ ENABLED DecrementSubscribers
        /\ subscriber_count < MaxSubscribers => ENABLED IncrementSubscribers(MaxSubscribers)
        /\ \A dir \in Directories : ENABLED SetDirectory(dir)

\* the task sleeps in backoff after a session in which it took each of the
\* three guards: an event was pushed, a heartbeat read the count, and two
\* attempts read the directory that a foreground call had changed
C18_Witness ==
    /\ pc = "sleeping"
    /\ attempts = 2
    /\ Len(buffer) = 1
    /\ Len(Heartbeats) = 1
    /\ Heartbeats[1].subscribers = 1
    /\ request.directory = "/proj"

\* a model id or mode that is known: not empty and not the unknown default
Known(x) == x \notin {"", "unknown model", "unknown mode"}

\* C19: once the cached model id, or mode, of a message id is known and
\* non-empty it never becomes empty or unknown again: a later frame whose field
\* is absent or empty leaves the cached value as it is.
C19_NoRegress ==
    [][ session' = session =>
          \A id \in DOMAIN message_info_cache : \A i \in 1..2 :
              Known(message_info_cache[id][i]) =>
                  /\ id \in DOMAIN message_info_cache'
                  /\ Known(message_info_cache'[id][i])
                  /\ LET found == ExtractModelMode(Unwrap(data_buf[1])) IN
                        (Len(frames') = Len(frames) + 1 /\ found[i] \in {NoneV, ""}) =>
                            message_info_cache'[id][i] = message_info_cache[id][i] ]_vars

\* the cache after the frames of events a and then b, from the cache as it is
AfterBoth(a, b) == CacheUpdate(CacheUpdate(message_info_cache, a), b)

\* no field, model id or mode, is carried by both events with different values
Agree(a, b) ==
    \A i \in 1..2 :
        \/ ExtractModelMode(a)[i] = NoneV
        \/ ExtractModelMode(b)[i] = NoneV
        \/ ExtractModelMode(a)[i] = ExtractModelMode(b)[i]

Dotted(m) ==
    [i \in 1..Len(m) |->
        IF m[i] = "-" /\ i > 1 /\ i < Len(m)
             /\ IsAsciiDigit(m[i - 1]) /\ IsAsciiDigit(m[i + 1])
          THEN "." ELSE m[i]]

\* the positions at which a non-empty segment between dashes starts, and the
\* segment that starts there
SegmentStarts(d) == {i \in 1..Len(d) : d[i] # "-" /\ (i = 1 \/ d[i - 1] = "-")}
SegmentAt(d, i) ==
    LET j == CHOOSE e \in i..Len(d) :
                 /\ \A k \in i..e : d[k] # "-"
                 /\ (e = Len(d) \/ d[e + 1] = "-")
    IN  SubSeq(d, i, j)

\* first character upper, rest lower
TitleCased(t) ==
    [k \in 1..Len(t) |-> IF k = 1 THEN ToAsciiUppercase(t[k]) ELSE ToAsciiLowercase(t[k])]

\* the Title-Cased segments that start at the given positions, in order, with one
\* space between two of them
RECURSIVE Spaced(_, _)
Spaced(d, starts) ==
    IF starts = {} THEN << >>
    ELSE LET i == CHOOSE x \in starts : \A y \in starts : x <= y
             rest == starts \ {i}
         IN  TitleCased(SegmentAt(d, i))
               \o (IF rest = {} THEN << >> ELSE << " " >> \o Spaced(d, rest))

\* the formatted model id and the formatted mode as they are described
DescribedModel(m) ==
    IF SegmentStarts(Dotted(m)) = {}
      THEN UnknownModelText
      ELSE Spaced(Dotted(m), SegmentStarts(Dotted(m)))
DescribedMode(m) == IF m = << >> THEN UnknownModeText ELSE TitleCased(m)

\* C24: the mode is Title-Cased and an empty mode gives "Unknown mode"; the model
\* id is split on dashes, a dash between two digits becoming a dot, its non-empty
\* segments are Title-Cased and joined by single spaces, and a model id without a
\* non-empty segment gives "Unknown model"; "claude-3-5-sonnet" gives
\* "Claude 3.5 Sonnet" and "BUILD" gives "Build".
C24_Formatting ==
    pc = "formatted" =>
        /\ title = DescribedMode(raw_mode) \o AgentIsReadyText
        /\ body_text = DescribedModel(raw_model) \o CompletedTheTaskText
        /\ raw_mode = BuildModeText =>
              title = << "B", "u", "i", "l", "d", " ", "a", "g", "e", "n", "t", " ", "i", "s", " ", "r", "e", "a", "d", "y" >>
        /\ raw_model = ClaudeModelText =>
              body_text = << "C", "l", "a", "u", "d", "e", " ", "3", ".", "5", " ", "S", "o", "n", "n", "e", "t", " ", "c", "o", "m", "p", "l", "e", "t", "e", "d", " ", "t", "h", "e", " ", "t", "a", "s", "k" >>

\* "claude-3-5-sonnet" and "BUILD" have been formatted
C24_Witness ==
    /\ pc = "formatted"
    /\ raw_model = ClaudeModelText
    /\ raw_mode = BuildModeText
    /\ body_text = << "C", "l", "a", "u", "d", "e", " ", "3", ".", "5", " ", "S", "o", "n", "n", "e", "t", " ", "c", "o", "m", "p", "l", "e", "t", "e", "d", " ", "t", "h", "e", " ", "t", "a", "s", "k" >>
    /\ title = << "B", "u", "i", "l", "d", " ", "a", "g", "e", "n", "t", " ", "i", "s", " ", "r", "e", "a", "d", "y" >>

\* a model id of dashes only has been formatted to "Unknown model"
C24_WitnessDashes ==
    /\ pc = "formatted"
    /\ raw_model = << "-", "-" >>
    /\ body_text = UnknownModelText \o CompletedTheTaskText

\* C25: every completion notification, of a message.updated or of a
\* message.part.updated frame, has the Title-Cased mode of the cached metadata
\* of its message id in its title and the formatted model id in its body, with
\* "Unknown mode" and "Unknown model" when nothing is cached.
C25_FormattedEverywhere ==
    \A i \in DOMAIN notifications :
        LET n == notifications[i] IN
        /\ n.title = DescribedMode(Chars(n.raw[2])) \o AgentIsReadyText
        /\ n.body = DescribedModel(Chars(n.raw[1])) \o CompletedTheTaskText

\* the metadata of every frame handled so far in the manager's lifetime, up to
\* and including frame n, whatever its session
RECURSIVE LifetimeCache(_)
LifetimeCache(n) ==
    IF n = 0 THEN << >>
    ELSE CacheUpdate(LifetimeCache(n - 1), Unwrap(frames[n].data[1]))

\* frame p made the completion detector show a notification
Notified(p) == frames[p].shown > (IF p = 1 THEN 0 ELSE frames[p - 1].shown)

\* C21: the model id and mode learned from a message.updated frame are used for
\* the notification of its message id whenever the completion signal arrives
\* in the manager's lifetime, a later streaming session included.
C21_RetainedForLifetime ==
    \A p \in DOMAIN frames :
        Notified(p) =>
            LET n == notifications[frames[p].shown]
            IN  n.raw = CacheGet(LifetimeCache(p), n.id)

\* the parts list of a message.updated event, under properties or properties.info
DescribedParts(v) == IF v.parts # NoArray THEN v.parts ELSE v.info_parts

\* the completion condition of message.updated as it is described
DescribedCompletion(v) ==
    \/ AsStr(OrElse(v.status, v.info_status)) = "completed"
    \/ /\ DescribedParts(v) # NoArray
       /\ \E i \in DOMAIN DescribedParts(v) : DescribedParts(v)[i] = StopPart

\* the event of the frame that a step has just handled
Handled == Unwrap(frames'[Len(frames')].data[1])

\* C22: a message.updated frame that is not suppressed and has a message id is
\* treated as a completion, the guard set to its id and a notification shown
\* unless the guard held the id already, exactly when its status is completed or
\* its parts list, under properties or properties.info, holds a step-finish
\* part of reason stop.
C22_UpdatedCompletes ==
    [][ ( /\ Len(frames') = Len(frames) + 1
          /\ EventType(Handled) = "message.updated"
          /\ ~SkipCurrentEvent(Handled)
          /\ MsgId(Handled) # NoneV ) =>
        IF DescribedCompletion(Handled)
          THEN /\ last_completed_id' = MsgId(Handled)
               /\ last_completed_id # MsgId(Handled) =>
                     /\ Len(notifications') = Len(notifications) + 1
                     /\ notifications'[Len(notifications')].id = MsgId(Handled)
               /\ last_completed_id = MsgId(Handled) => notifications' = notifications
          ELSE UNCHANGED << last_completed_id, notifications >> ]_vars

\* the message-reference field of the part of a message.part.updated event
DescribedReference(v) ==
    IF v.part_messageID # Absent THEN v.part_messageID ELSE v.part_message_id

\* C23: a message.part.updated frame is treated as a completion for message id
\* M, the guard set to M and a notification shown unless the guard held M
\* already, exactly when its part has type step-finish and reason stop and M is
\* the part's message reference; a part of any other type or reason shows no
\* notification and leaves the guard as it is.
C23_PartCompletes ==
    [][ ( /\ Len(frames') = Len(frames) + 1
          /\ EventType(Handled) = "message.part.updated" ) =>
        IF /\ Handled.part_type = "step-finish"
           /\ Handled.part_reason = "stop"
           /\ DescribedReference(Handled) \in MsgIds
          THEN /\ last_completed_id' = DescribedReference(Handled)
               /\ last_completed_id # DescribedReference(Handled) =>
                     /\ Len(notifications') = Len(notifications) + 1
                     /\ notifications'[Len(notifications')].id = DescribedReference(Handled)
               /\ last_completed_id = DescribedReference(Handled) =>
                     notifications' = notifications
          ELSE UNCHANGED << last_completed_id, notifications >> ]_vars

\* a step-finish part of reason stop that names its message under message_id has
\* fired a notification, and a part of reason tool-calls after it has not
C23_Witness ==
    /\ Len(frames) = 2
    /\ Unwrap(frames[1].data[1]).part_message_id = "m2"
    /\ Unwrap(frames[2].data[1]).part_reason = "tool-calls"
    /\ Len(notifications) = 1
    /\ notifications[1].id = "m2"
    /\ notifications[1].type = "message.part.updated"
    /\ last_completed_id = "m2"

\* C26: a snapshot holds the replay buffer's contents in arrival order as they
\* are when it is taken; taking it leaves the live buffer as it is, and the
\* pushes and evictions that follow leave the snapshot as it was.
C26_SnapshotIndependent ==
    [][ /\ snapshot' # snapshot =>
              /\ View(snapshot)' = buffer
              /\ View(snapshot)' = LastN(Arrived, Min(Len(Arrived), max_buffer))
              /\ buffer' = buffer
        /\ (snapshot' = snapshot /\ snapshot.taken) => View(snapshot)' = View(snapshot) ]_vars

\* a snapshot of a full buffer was taken, and an event it holds has since been
\* evicted from the live buffer and another pushed
C26_Witness ==
    /\ snapshot.taken
    /\ Len(View(snapshot)) = max_buffer
    /\ Len(buffer) = max_buffer
    /\ View(snapshot)[1] # buffer[1]
    /\ View(snapshot)[max_buffer] = buffer[max_buffer - 1]

\* C28: subscribe adds one to the subscriber count and emits to the calling
\* window every event of the replay buffer as it is then, in buffer order;
\* unsubscribe takes one from the count, which stays at 0 when it is 0, and emits
\* nothing.
C28_SubscribeReplays ==
    [][ /\ subscriber_count' > subscriber_count =>
              /\ subscriber_count' = subscriber_count + 1
              /\ window_events' = Append(window_events, buffer)
              /\ buffer' = buffer
        /\ subscriber_count' < subscriber_count =>
              /\ subscriber_count' = subscriber_count - 1
              /\ window_events' = window_events
        /\ window_events' # window_events => subscriber_count' = subscriber_count + 1 ]_vars

\* a window subscribed when two events were buffered and was sent both in
\* buffer order, and after an unsubscribe nothing more was sent
C28_Witness ==
    /\ Len(window_events) = 1
    /\ Len(window_events[1]) = 2
    /\ window_events[1] = buffer
    /\ window_events[1] = events
    /\ events[1] # events[2]
    /\ subscriber_count = 0

\* what the frames handled so far in one session determine, whatever the
\* subscriber count was at any moment: the completion guard, the metadata
\* cache, the notifications and the last event id after frame n
RECURSIVE AfterFrames(_)
AfterFrames(n) ==
    IF n = 0
      THEN [guard |-> NoneV, cache |-> << >>, shown |-> << >>, last_id |-> NoneV]
      ELSE LET st == AfterFrames(n - 1)
               v == Unwrap(frames[n].data[1])
               cache == CacheUpdate(st.cache, v)
               id == IF frames[n].id # NoneV THEN frames[n].id ELSE st.last_id
           IN  IF SkipCurrentEvent(v)
                 THEN [st EXCEPT !.cache = cache, !.last_id = id]
                 ELSE IF Fires(st.guard, v)
                        THEN [guard |-> CompletionId(v), cache |-> cache, last_id |-> id,
                              shown |-> Append(st.shown,
                                               Notification(CompletionId(v), v, cache))]
                        ELSE [st EXCEPT !.cache = cache, !.last_id = id]

IsNoHeartbeat(st) == ~st.heartbeat

\* C27: whatever subscribe and unsubscribe calls are interleaved, the events on
\* the live-event channel, the replay buffer, the notifications and
\* last_event_id are those the upstream frames determine, and the diagnostics
\* other than heartbeats are those of the connection; the count shows in the
\* heartbeat alone.
C27_CountNeverInfluences ==
    /\ events = Arrived
    /\ buffer = LastN(Arrived, Min(Len(Arrived), max_buffer))
    /\ notifications = AfterFrames(Len(frames)).shown
    /\ last_event_id = AfterFrames(Len(frames)).last_id
    /\ SelectSeq(statuses, IsNoHeartbeat) = << StatusConnected("") >>

\* a frame was delivered with no subscriber and another with one, a heartbeat
\* reported the one subscriber, and a notification and an event id came of it
C27_Witness ==
    /\ Len(events) = 2
    /\ Len(window_events) = 1
    /\ Len(window_events[1]) = 1
    /\ subscriber_count = 1
    /\ \E i \in DOMAIN statuses : statuses[i].heartbeat /\ statuses[i].subscribers = 1
    /\ Len(notifications) = 1
    /\ last_event_id = "e2"

\* C29: when the notification call of a completion fails, the event that
\* triggered it is still pushed to the replay buffer and delivered on the
\* live-event channel, the completion guard holds its message id, no diagnostic
\* is emitted and the connector stays in Streaming.
C29_FailureSwallowed ==
    [][ ( /\ Len(frames') = Len(frames) + 1
          /\ ParseOk(frames'[Len(frames')].data)
          /\ Fires(last_completed_id, Handled)
          /\ ~notify_ok ) =>
        /\ Len(notifications') = Len(notifications) + 1
        /\ ~notifications'[Len(notifications')].ok
        /\ buffer' = Push(buffer, Handled)
        /\ events' = Append(events, Handled)
        /\ last_completed_id' = CompletionId(Handled)
        /\ statuses' = statuses
        /\ pc' = "streaming" ]_vars

\* the notification of m1 failed to show; its event is buffered and delivered,
\* the guard holds m1, the session goes on and no diagnostic followed
C29_Witness ==
    /\ Len(notifications) = 1
    /\ ~notifications[1].ok
    /\ notifications[1].id = "m1"
    /\ buffer = << PartStop("m1") >>
    /\ events = << PartStop("m1") >>
    /\ last_completed_id = "m1"
    /\ statuses = << StatusConnected("") >>
    /\ pc = "streaming"

\* the connector is in Streaming
Streaming == pc \in {"streaming", "lines", "line"}

\* C30: while the connector is in Streaming a heartbeat is emitted whenever more
\* than 20 seconds have passed since the one before (the start, for the first),
\* whether data arrives or not, so that never more than twice 20 seconds have
\* passed without one; and two heartbeats are never less than 20 seconds apart.
C30_HeartbeatEvery20s ==
    /\ Streaming => now - last_heartbeat <= 2 * HeartbeatEvery
    /\ \A i, j \in DOMAIN Heartbeats :
          i < j => Heartbeats[j].at - Heartbeats[i].at >= HeartbeatEvery

\* the event of a parsed data text as the two payload shapes describe it: the
\* contents of the payload field of an envelope, the parsed object otherwise
DescribedEvent(tok) == IF tok.has_payload THEN tok.payload ELSE tok.body

\* the frame was parsed and its described event is no assistant placeholder
DescribedDeliverable(f) ==
    /\ f.data[1].valid
    /\ ~SkipCurrentEvent(DescribedEvent(f.data[1]))

\* the described events of the frames that are to be delivered, in arrival order
DescribedArrived ==
    LET ok == SelectSeq(frames, DescribedDeliverable)
    IN  [i \in 1..Len(ok) |-> DescribedEvent(ok[i].data[1])]

\* C31: the event that is evaluated, buffered and delivered is the contents of
\* the payload field when the parsed object has one and the parsed object
\* itself otherwise, and the event pushed to the replay buffer is the event
\* delivered on the live-event channel.
C31_BothShapes ==
    /\ events = DescribedArrived
    /\ buffer = LastN(DescribedArrived, Min(Len(DescribedArrived), max_buffer))
    /\ \A p \in DOMAIN frames :
          Notified(p) =>
              /\ frames[p].data[1].valid
              /\ notifications[frames[p].shown].id
                   = CompletionId(DescribedEvent(frames[p].data[1]))
              /\ notifications[frames[p].shown].type
                   = DescribedEvent(frames[p].data[1]).type

\* an envelope and a bare event were delivered: the contents of the envelope's
\* payload field, which fired the notification of m1, and the bare event itself
C31_Witness ==
    /\ Len(frames) = 2
    /\ frames[1].data = << Envelope(UpdStepFinish("m1")) >>
    /\ frames[2].data = << Bare(PartStop("m2")) >>
    /\ events = << UpdStepFinish("m1"), PartStop("m2") >>
    /\ buffer = events
    /\ Len(notifications) = 2
    /\ notifications[1].id = "m1"

\* C32: a backoff sleep begins with exactly one reconnecting diagnostic, the
\* last one emitted, which carries the delay that is slept and last_event_id
\* as it is then (none when none is known); and a reconnecting diagnostic is
\* emitted only where a sleep begins.
C32_ReconnectingBeforeSleep ==
    [][ /\ (pc' = "sleeping" /\ pc # "sleeping") =>
              /\ Len(Reconnects') = Len(Reconnects) + 1
              /\ statuses'[Len(statuses')].status = "reconnecting"
              /\ statuses'[Len(statuses')].delay_ms = delay_ms'
              /\ statuses'[Len(statuses')].last_event_id = last_event_id'
        /\ Reconnects' # Reconnects => (pc' = "sleeping" /\ pc # "sleeping")
        /\ pc = "sleeping" =>
              /\ statuses[Len(statuses)].status = "reconnecting"
              /\ statuses[Len(statuses)].delay_ms = delay_ms
              /\ statuses[Len(statuses)].last_event_id = last_event_id
              /\ pc' = "sleeping" => statuses' = statuses ]_vars

\* the second sleep in a row, of 1000 ms, after a session that learned the event
\* id e1: its diagnostic carries 1000 and e1
C32_Witness ==
    /\ pc = "sleeping"
    /\ delay_ms = 1000
    /\ last_event_id = "e1"
    /\ Len(Reconnects) = 2
    /\ Reconnects[1].delay_ms = 500
    /\ statuses[Len(statuses)] = StatusReconnecting(1000, "e1")

\* the bytes the current session has read
SessionBytes == SubSeq(wire, session_from.arrived + 1, arrived)

\* C33: each streaming session starts with an empty byte accumulator, pending
\* data buffer and pending event id: what a session dispatches and holds is
\* what the bytes it has read give by themselves, so nothing that the session
\* before left incomplete is emitted or combined with what arrives after.
C33_SessionStartsEmpty ==
    (session > 0 /\ pc \notin {"sending", "lines", "line"}) =>
        LET whole == DecodeWhole(SessionBytes) IN
          /\ SubSeq(decoded, session_from.decoded + 1, Len(decoded)) = whole.decoded
          /\ data_buf = whole.data_buf
          /\ event_id_buf = whole.event_id_buf
          /\ buf = Unterminated(SessionBytes)

\* the first session ended after the id: line and the first data: line of a
\* frame; the second session read the rest, which is a frame without an id
C33_Witness ==
    /\ session = 2
    /\ pc = "streaming"
    /\ session_from = [arrived |-> Len(IdPrefix) + Len(DataPrefix) + 5, decoded |-> 0]
    /\ arrived = Len(wire)
    /\ decoded = << [data |-> Obj, id |-> NoBytes] >>
    /\ events = << Ev0 >>
    /\ last_event_id = NoBytes

\* what one line does to last_event_id when a pending id belongs to the frame
\* it was read in: a blank line ends the frame and its id with it, whether the
\* frame was parsed, failed to parse or had no data lines
DescribedLine(st, l) ==
    IF StartsWith(l, << ":" >>) THEN st
    ELSE IF l = << >> THEN
        [ data_buf |-> << >>,
          event_id_buf |-> NoBytes,
          last_event_id |-> IF st.data_buf # << >> /\ JsonOk(st.data_buf)
                                 /\ st.event_id_buf # NoBytes
                              THEN st.event_id_buf
                              ELSE st.last_event_id ]
    ELSE IF StartsWith(l, DataPrefix) THEN
        [st EXCEPT !.data_buf =
            (IF @ # << >> THEN Append(@, LF) ELSE @) \o TrimStart(StripPrefix(l, DataPrefix))]
    ELSE IF StartsWith(l, IdPrefix) THEN
        [st EXCEPT !.event_id_buf = SomeBytes(Trim(StripPrefix(l, IdPrefix)))]
    ELSE st

RECURSIVE DescribedLines(_, _)
DescribedLines(st, b) ==
    IF Position(b) = 0
      THEN st
      ELSE DescribedLines(DescribedLine(st, StripEol(SubSeq(b, 1, Position(b)))),
                          SubSeq(b, Position(b) + 1, Len(b)))
DescribedLastEventId(b) ==
    DescribedLines([data_buf |-> << >>, event_id_buf |-> NoBytes,
                    last_event_id |-> NoBytes], b).last_event_id

\* C34: last_event_id only takes the value of an id: line of a frame that was
\* parsed: the id of a frame that failed to parse or that had no data lines is
\* never assigned to it, not when that frame ends and not when a later frame
\* without an id: line of its own is handled.
C34_OwnIdOnly ==
    (pc \notin {"lines", "line"} /\ ~stop_tx) =>
        last_event_id = DescribedLastEventId(SubSeq(wire, 1, arrived))

\* the events the window that subscribed last has received, each named by its
\* place in the order of the pushes, which is the order of the live emits: the
\* replay of the buffer, below its capacity, gives the pushes so far, and the
\* live channel gives every emit that came after the call
ReceivedByWindow ==
    LET replay == window_events[Len(window_events)] IN
      [i \in 1..Len(replay) |-> i]
      \o [j \in 1..(Len(events) - subscribed_at) |-> subscribed_at + j]

\* C35: a window that subscribes while a session is active receives every
\* event at most once: no event reaches it both in the replay of the buffer and
\* on the live channel.
C35_AtMostOnce ==
    window_events # << >> =>
        \A i, j \in DOMAIN ReceivedByWindow :
            i # j => ReceivedByWindow[i] # ReceivedByWindow[j]

\* the event of frame q
EventOf(q) == Unwrap(frames[q].data[1])

\* C36: a suppressed assistant placeholder still has its model id and mode
\* merged into the metadata cache, so the notification of a later completion
\* signal of the same message in the session carries them, and the id of the
\* placeholder's id: line becomes last_event_id.
C36_PlaceholderCounts ==
    /\ \A p \in DOMAIN frames :
          Notified(p) =>
              notifications[frames[p].shown].raw =
                  IF \E q \in 1..(p - 1) : EventOf(q) = PlaceholderMeta
                    THEN << "gpt-4", "build" >>
                    ELSE << "unknown model", "unknown mode" >>
    /\ \A q \in DOMAIN frames :
          (SkipCurrentEvent(EventOf(q)) /\ frames[q].id # NoneV) =>
              /\ id_frame >= q
              /\ last_event_id = frames[id_frame].id

\* a placeholder with metadata and an id: line was dropped, and the completion
\* signal that followed was notified with the placeholder's metadata
C36_Witness ==
    /\ Len(frames) = 2
    /\ EventOf(1) = PlaceholderMeta
    /\ frames[1].id = "e1"
    /\ EventOf(2) = PartStop("m1")
    /\ frames[2].id = NoneV
    /\ events = << PartStop("m1") >>
    /\ Len(notifications) = 1
    /\ notifications[1].raw = << "gpt-4", "build" >>
    /\ last_event_id = "e1"

\* C37: in every reachable state the backoff delay is one of 500, 1000, 2000,
\* 4000 and 8000 ms, so it is never below the floor or above the ceiling and
\* its double, 16000 at most, is far from the end of the u64 range.
C37_DelayValues ==
    /\ delay_ms \in {500, 1000, 2000, 4000, 8000}
    /\ \A i \in DOMAIN Reconnects :
          Reconnects[i].delay_ms \in {500, 1000, 2000, 4000, 8000}

\* failures took the delay to the ceiling, where a further doubling left it,
\* and the session that followed took it back to the floor
C37_Witness ==
    /\ pc = "sleeping"
    /\ delay_ms = 500
    /\ session = 1
    /\ Len(Reconnects) = 7
    /\ Reconnects[5].delay_ms = 8000
    /\ Reconnects[6].delay_ms = 8000

\* C38: under any interleaving of subscribe and unsubscribe calls the
\* subscriber count never goes below 0, every call that changes it changes it
\* by exactly one, a subscribe always adds one, the count never exceeds the
\* subscribes made, and no call changes it while the task holds its guard.
C38_CountNeverUnderflows ==
    [][ /\ subscriber_count' >= 0
        /\ subscriber_count' <= Len(window_events')
        /\ subscriber_count' # subscriber_count =>
              \/ subscriber_count' = subscriber_count + 1
              \/ subscriber_count > 0 /\ subscriber_count' = subscriber_count - 1
        /\ Len(window_events') > Len(window_events) =>
              subscriber_count' = subscriber_count + 1
        /\ "subscriber_count" \in held => subscriber_count' = subscriber_count ]_vars

\* three windows subscribed, unsubscribe calls between and after them left the
\* count at 1, and the heartbeat read the count 1 under its guard
C38_Witness ==
    /\ Len(window_events) = 3
    /\ subscriber_count = 1
    /\ Len(Heartbeats) = 1
    /\ Heartbeats[1] = StatusHeartbeat(1)

\* C39: the replay buffer changes only by the push of a frame that is
\* delivered: a disconnect, a failed attempt, a backoff, a reconnect, a
\* directory change, a subscribe, an unsubscribe and a parse error leave it as
\* it is, so a snapshot holds every event delivered so far, those of the
\* sessions before the reconnect included.
C39_OnlyPushChangesBuffer ==
    [][ /\ buffer' # buffer =>
              /\ pc = "streaming" /\ pc' = "streaming"
              /\ Len(frames') = Len(frames) + 1
              /\ Deliverable(frames'[Len(frames')])
              /\ buffer' = Append(buffer, Handled)
              /\ events' = Append(events, Handled)
        /\ snapshot' # snapshot => View(snapshot') = events ]_vars

\* an event was delivered in the first session, the session ended, the
\* directory changed, the second session delivered another event, and the
\* snapshot taken then holds both
C39_Witness ==
    /\ session = 2
    /\ Len(frames) = 2
    /\ frames[1].session = 1
    /\ frames[2].session = 2
    /\ directory_state = "/proj"
    /\ snapshot.taken
    /\ View(snapshot) = << SessionIdle, SessionIdle >>

\* C40: while no manager is installed, before start_sse has stored it and after
\* shutdown has taken it, a snapshot returns an empty sequence and no call
\* changes the count, emits to a window or changes the directory; when the
\* manager is installed nothing has been counted or replayed.
C40_NoManagerNoEffect ==
    [][ /\ sse_manager # "installed" =>
              /\ snapshot' # snapshot => (snapshot'.taken /\ View(snapshot)' = << >>)
              /\ subscriber_count' = subscriber_count
              /\ window_events' = window_events
              /\ directory_state' = directory_state
        /\ (sse_manager = "pending" /\ sse_manager' = "installed") =>
              /\ subscriber_count' = 0
              /\ window_events' = << >>
              /\ directory_state' = ""
        /\ sse_manager' = "taken" => stop_tx' ]_vars

\* the task has delivered and buffered an event before the manager was stored,
\* and the snapshot called then returned an empty sequence
C40_Witness ==
    /\ sse_manager = "pending"
    /\ buffer = << SessionIdle >>
    /\ snapshot.taken
    /\ View(snapshot) = << >>
    /\ subscriber_count = 0
    /\ window_events = << >>

====
